---- MODULE Spec2Model ----
(***************************************************************************)
(* Model of the address-book / notes assistant: the validated fields, the  *)
(* Record, AddressBook, Note and NoteBook of models.py, the decorators and *)
(* command handlers of commands.py, and the interactive loop of cli.py.    *)
(* Text values are TLA+ strings; strip(), lower(), startswith() and join() *)
(* are computed character by character.                                    *)
(***************************************************************************)
EXTENDS Integers, Sequences, FiniteSets, TLC

VARIABLES contacts, notes, saved, saveFailures, running, last

vars == <<contacts, notes, saved, saveFailures, running, last>>

(***************************************************************************)
(* Bounds of the model.                                                    *)
(***************************************************************************)
\* the size of a run is the number of records, phones, emails, addresses,
\* birthdays, notes and tags in the storage plus the number of failed saves
MaxSize == 2
MaxPhoneBookSize == 3
MaxBirthdayBookSize == 2
MaxNoteBookSize == 3
MaxDays == 7
MaxPhoneLen == 11

(***************************************************************************)
(* CommandRegistry (commands.py): the registrations of REG.                *)
(***************************************************************************)
\* "Phonebook", "Notes", SECTION_SYSTEM and the default section,
\* whose name is written in ASCII
SECTION_ORDER == <<"Phonebook", "Notes", "System", "Prochee">>

Reg(help, section, min_args, isMutating) ==
    [help |-> help, section |-> section, min_args |-> min_args, mutating |-> isMutating]

\* the registrations, by key; mutating tells whether the handler is wrapped
\* by @mutating
REG ==
    (  "add-contact" :> Reg("Usage: add-contact \"Name\" [0123456789]", "Phonebook", 1, TRUE) @@
       "change-phone" :> Reg("Usage: change-phone \"Name\" old10 new10", "Phonebook", 3, TRUE) @@
       "show-phone" :> Reg("Usage: show-phone \"Name\"", "Phonebook", 1, FALSE) @@
       "all-contacts" :> Reg("Show all contacts", "Phonebook", 0, FALSE) @@
       "add-birthday" :> Reg("Usage: add-birthday \"Name\" DD.MM.YYYY", "Phonebook", 2, TRUE) @@
       "show-birthday" :> Reg("Usage: show-birthday \"Name\"", "Phonebook", 1, FALSE) @@
       "birthdays" :> Reg("Show upcoming birthdays (within 7 days)", "Phonebook", 0, FALSE) @@
       "add-email" :> Reg("Usage: add-email \"Name\" example@mail.com", "Phonebook", 2, TRUE) @@
       "delete-email" :> Reg("Usage: delete-email \"Name\" example@mail.com", "Phonebook", 2, TRUE) @@
       "add-address" :> Reg("Usage: add-address \"Name\" \"Kyiv, ...\"", "Phonebook", 2, TRUE) @@
       "delete-phone" :> Reg("Usage: delete-phone \"Name\" 0123456789", "Phonebook", 2, TRUE) @@
       "delete-address" :> Reg("Usage: delete-address \"Name\"", "Phonebook", 1, TRUE) @@
       "find-contact" :> Reg("Usage: find-contact query", "Phonebook", 1, FALSE) @@
       "delete-contact" :> Reg("Usage: delete-contact \"Name\"", "Phonebook", 1, TRUE) @@
       "add-note" :> Reg("Usage: add-note \"Title\" text...", "Notes", 2, TRUE) @@
       "all-notes" :> Reg("List all notes (sort by title or created)", "Notes", 0, FALSE) @@
       "find-note" :> Reg("Usage: find-note query", "Notes", 1, FALSE) @@
       "find-tag" :> Reg("Usage: find-tag tag", "Notes", 1, FALSE) @@
       "edit-note" :> Reg("Usage: edit-note \"Title\" new_text...", "Notes", 2, TRUE) @@
       "add-tags" :> Reg("Usage: add-tags \"Title\" tag1 tag2 ...", "Notes", 2, TRUE) @@
       "delete-tag" :> Reg("Usage: delete-tag \"Title\" tag", "Notes", 2, TRUE) @@
       "delete-note" :> Reg("Usage: delete-note \"Title\"", "Notes", 1, TRUE) @@
       "hello" :> Reg("Greeting from bot", "System", 0, FALSE) @@
       "help" :> Reg("Show help", "System", 0, FALSE) @@
       "exit" :> Reg("Close program", "System", 0, FALSE) @@
       "close" :> Reg("Close program", "System", 0, FALSE) @@
       "version" :> Reg("Show version", "System", 0, FALSE) )

Registered == DOMAIN REG

Entry(key) == REG[key]

(***************************************************************************)
(* Inputs: the words a line is made of.                                    *)
(***************************************************************************)
Inputs ==
    [names |-> {"Ann", " ann", ""},
     phones |-> {"1111111111", "2222222222", " 1111111111", "12345"},
     emails |-> {"a@b.co", "bad"},
     bookEmails |-> {"a@b.co", " a@b.co", "c@d.eu", "bad"},
     birthdays |-> {"29.02.2000", "31.02.2001"},
     addresses |-> {<<"Kyiv">>, <<" ">>},
     titles |-> {"Todo", "todo "},
     texts |-> {<<"milk">>, <<"eggs">>, <<" ">>},
     tags |-> {"x", " X", ""},
     queries |-> {"ann", ""},
     unknown |-> {"foo", "add", "Hell"},
     hello |-> {"hello", "HELLO", " Hello"}]

(***************************************************************************)
(* str helpers                                                             *)
(***************************************************************************)
Char(s, i) == SubSeq(s, i, i)

\* the lower-case form of each character that occurs in the inputs
LowerTable ==
    LET upper == "ABCDEFGHIJKLMNOPQRSTUVWXYZ"
        lower == "abcdefghijklmnopqrstuvwxyz"
        other == " 0123456789.,:;@#-_'!?()[]|<>=+*/"
    IN  [c \in {Char(upper, i) : i \in 1..26} |->
            Char(lower, CHOOSE i \in 1..26 : Char(upper, i) = c)]
        @@ [c \in {Char(lower \o other, i) : i \in 1..Len(lower \o other)} |-> c]

RECURSIVE LowerChars(_)
LowerChars(s) ==
    IF s = "" THEN "" ELSE LowerTable[Char(s, 1)] \o LowerChars(SubSeq(s, 2, Len(s)))

\* the whitespace of the inputs is the space
RECURSIVE StripChars(_)
StripChars(s) ==
    IF s = "" THEN s
    ELSE IF Char(s, 1) = " " THEN StripChars(SubSeq(s, 2, Len(s)))
    ELSE IF Char(s, Len(s)) = " " THEN StripChars(SubSeq(s, 1, Len(s) - 1))
    ELSE s

\* str.lower() and str.strip() of the words of the inputs, computed once
StrCache ==
    LET words == UNION {Inputs[f] : f \in {"names", "phones", "emails", "bookEmails", "birthdays",
                                          "titles", "tags", "queries", "unknown", "hello"}}
                    \cup UNION {{a[i] : i \in 1..Len(a)} :
                                   a \in Inputs.addresses \cup Inputs.texts}
    IN  [s \in UNION {words, {StripChars(w) : w \in words}, {LowerChars(w) : w \in words}}
            |-> [lower |-> LowerChars(s), strip |-> StripChars(s)]]

Cached(cache, s) ==
    IF s \in DOMAIN cache THEN cache[s]
    ELSE [lower |-> LowerChars(s), strip |-> StripChars(s)]

\* str.lower()
Lower(s) == Cached(StrCache, s).lower

\* str.strip()
Strip(s) == Cached(StrCache, s).strip

StartsWith(s, prefix) ==
    Len(s) >= Len(prefix) /\ SubSeq(s, 1, Len(prefix)) = prefix

RECURSIVE Join(_, _)
Join(sep, parts) ==
    IF parts = <<>> THEN ""
    ELSE IF Len(parts) = 1 THEN parts[1]
    ELSE parts[1] \o sep \o Join(sep, Tail(parts))

AllDigits(s) ==
    \A i \in 1..Len(s) : Char(s, i) \in {"0", "1", "2", "3", "4", "5", "6", "7", "8", "9"}

(***************************************************************************)
(* Validated fields (models.py).  A constructor either raises ValueError   *)
(* or yields the stored value.                                             *)
(***************************************************************************)
PHONE_DIGITS == 10

\* Field.value: the setter strips
Name(value) == Strip(value)

Address(value) == Strip(value)

PhoneMatches(s) == Len(s) = PHONE_DIGITS /\ AllDigits(s)

\* the test of the Phone setter on the value as given
PhoneValid_noStrip(new_value) == PhoneMatches(new_value)

PhoneValid(new_value) == PhoneMatches(Strip(new_value))

PhoneValue(new_value) == Strip(new_value)

PhoneError == "Phone must contain exactly 10 digits."

(***************************************************************************)
(* Results of calls: exc is "none" when the call returned val, otherwise   *)
(* the class of the exception raised and val its first argument.           *)
(***************************************************************************)
NoExc == "none"

(***************************************************************************)
(* Record (models.py).  Optional fields are <<>> (None) or <<value>>.      *)
(***************************************************************************)
Record(name) ==
    [name |-> name, phones |-> <<>>, emails |-> <<>>,
     address |-> <<>>, birthday |-> <<>>]

InSeq(v, seq) == \E i \in 1..Len(seq) : seq[i] = v

FirstIndex(v, seq) == CHOOSE i \in 1..Len(seq) : seq[i] = v /\ \A j \in 1..(i - 1) : seq[j] # v

RemoveAt(seq, i) == SubSeq(seq, 1, i - 1) \o SubSeq(seq, i + 1, Len(seq))

\* add_phone without the test of the values the record holds
add_phone_noCheck(rec, phone) == [rec EXCEPT !.phones = Append(@, phone)]

add_phone(rec, phone) ==
    IF ~InSeq(phone, rec.phones)
    THEN [rec EXCEPT !.phones = Append(@, phone)]
    ELSE rec

remove_phone(rec, phone_value) ==
    IF InSeq(phone_value, rec.phones)
    THEN [ret |-> TRUE,
          rec |-> [rec EXCEPT !.phones = RemoveAt(@, FirstIndex(phone_value, @))]]
    ELSE [ret |-> FALSE, rec |-> rec]

\* edit_phone that takes the old phone out before it validates the new one
edit_phone_removeFirst(rec, old_value, new_value) ==
    IF InSeq(old_value, rec.phones)
    THEN LET without == [rec EXCEPT !.phones = RemoveAt(@, FirstIndex(old_value, @))] IN
         IF PhoneValid(new_value)
         THEN [exc |-> NoExc, val |-> "",
               rec |-> [without EXCEPT !.phones = Append(@, PhoneValue(new_value))]]
         ELSE [exc |-> "ValueError", val |-> PhoneError, rec |-> without]
    ELSE [exc |-> "KeyError",
          val |-> "Phone '" \o old_value \o "' not found for contact '" \o rec.name \o "'.",
          rec |-> rec]

edit_phone(rec, old_value, new_value) ==
    IF InSeq(old_value, rec.phones)
    THEN IF PhoneValid(new_value)
         THEN [exc |-> NoExc, val |-> "",
               rec |-> [rec EXCEPT !.phones[FirstIndex(old_value, rec.phones)] =
                                        PhoneValue(new_value)]]
         ELSE [exc |-> "ValueError", val |-> PhoneError, rec |-> rec]
    ELSE [exc |-> "KeyError",
          val |-> "Phone '" \o old_value \o "' not found for contact '" \o rec.name \o "'.",
          rec |-> rec]

\* add_email without the test of the values the record holds
add_email_noCheck(rec, email) == [rec EXCEPT !.emails = Append(@, email)]

add_email(rec, email) ==
    IF ~InSeq(email, rec.emails)
    THEN [rec EXCEPT !.emails = Append(@, email)]
    ELSE rec

remove_email(rec, email_value) ==
    IF InSeq(email_value, rec.emails)
    THEN [ret |-> TRUE,
          rec |-> [rec EXCEPT !.emails = RemoveAt(@, FirstIndex(email_value, @))]]
    ELSE [ret |-> FALSE, rec |-> rec]

set_address(rec, address) == [rec EXCEPT !.address = <<address>>]

remove_address(rec) ==
    IF rec.address # <<>>
    THEN [ret |-> TRUE, rec |-> [rec EXCEPT !.address = <<>>]]
    ELSE [ret |-> FALSE, rec |-> rec]

set_birthday(rec, bday) == [rec EXCEPT !.birthday = <<bday>>]

(***************************************************************************)
(* Email and Birthday fields.                                              *)
(***************************************************************************)
EmailMatches(s) ==
    /\ \A i \in 1..Len(s) : Char(s, i) # " "
    /\ Cardinality({i \in 1..Len(s) : Char(s, i) = "@"}) = 1
    /\ \E i \in 2..Len(s) : \E j \in (i + 2)..(Len(s) - 1) :
          Char(s, i) = "@" /\ Char(s, j) = "."

EmailValid(new_value) == EmailMatches(Strip(new_value))

EmailValue(new_value) == Strip(new_value)

EmailError == "Invalid email format."

\* BIRTHDAY_FORMAT is "%d.%m.%Y"
BirthdayError == "Birthday must be in %d.%m.%Y format."

RECURSIVE StrToNat(_)
StrToNat(s) ==
    IF s = "" THEN 0
    ELSE 10 * StrToNat(SubSeq(s, 1, Len(s) - 1))
         + (CHOOSE v \in 0..9 : Char("0123456789", v + 1) = Char(s, Len(s)))

Pad2(n) == Char("0123456789", ((n \div 10) % 10) + 1) \o Char("0123456789", (n % 10) + 1)

Pad4(n) == Pad2(n \div 100) \o Pad2(n % 100)

isleap(year) == year % 4 = 0 /\ (year % 100 # 0 \/ year % 400 = 0)

DaysInMonth(year, month) ==
    IF month = 2 THEN (IF isleap(year) THEN 29 ELSE 28)
    ELSE IF month \in {4, 6, 9, 11} THEN 30 ELSE 31

\* datetime.strptime(s, "%d.%m.%Y"): <<>> when it raises, else <<[y, m, d]>>
strptime(s) ==
    LET dots == {i \in 1..Len(s) : Char(s, i) = "."} IN
    IF Cardinality(dots) # 2 THEN <<>>
    ELSE LET p1 == CHOOSE i \in dots : \A j \in dots : i <= j
             p2 == CHOOSE i \in dots : \A j \in dots : j <= i
             ds == SubSeq(s, 1, p1 - 1)
             ms == SubSeq(s, p1 + 1, p2 - 1)
             ys == SubSeq(s, p2 + 1, Len(s))
         IN  IF /\ Len(ds) \in {1, 2} /\ AllDigits(ds)
                /\ Len(ms) \in {1, 2} /\ AllDigits(ms)
                /\ Len(ys) = 4 /\ AllDigits(ys)
                /\ StrToNat(ys) >= 1
                /\ StrToNat(ms) \in 1..12
                /\ StrToNat(ds) \in 1..DaysInMonth(StrToNat(ys), StrToNat(ms))
             THEN <<[y |-> StrToNat(ys), m |-> StrToNat(ms), d |-> StrToNat(ds)]>>
             ELSE <<>>

strftime(dt) == Pad2(dt.d) \o "." \o Pad2(dt.m) \o "." \o Pad4(dt.y)

BirthdayValid(new_value) == strptime(Strip(new_value)) # <<>>

BirthdayValue(new_value) == strftime(strptime(Strip(new_value))[1])

as_date(bday) == strptime(bday)[1]

(***************************************************************************)
(* AddressBook and NoteBook (models.py): dictionaries in insertion order,  *)
(* a sequence of entries [key, rec] with pairwise distinct keys.           *)
(***************************************************************************)
HasKey(data, key) == \E i \in 1..Len(data) : data[i].key = key

IndexOf(data, key) == CHOOSE i \in 1..Len(data) : data[i].key = key

GetItem(data, key) == data[IndexOf(data, key)].rec

SetItem(data, key, rec) ==
    IF HasKey(data, key)
    THEN [data EXCEPT ![IndexOf(data, key)].rec = rec]
    ELSE Append(data, [key |-> key, rec |-> rec])

PopItem(data, key) ==
    IF HasKey(data, key) THEN RemoveAt(data, IndexOf(data, key)) ELSE data

\* add_record that takes the name as written for the key
add_record_keyAsWritten(data, record) ==
    IF HasKey(data, record.name)
    THEN [exc |-> "KeyError", val |-> "Contact '" \o record.name \o "' already exists.",
          data |-> data]
    ELSE [exc |-> NoExc, val |-> "", data |-> SetItem(data, record.name, record)]

\* add_record without the check of the key
add_record_overwrite(data, record) ==
    [exc |-> NoExc, val |-> "", data |-> SetItem(data, Lower(record.name), record)]

add_record(data, record) ==
    LET key == Lower(record.name) IN
    IF HasKey(data, key)
    THEN [exc |-> "KeyError", val |-> "Contact '" \o record.name \o "' already exists.",
          data |-> data]
    ELSE [exc |-> NoExc, val |-> "", data |-> SetItem(data, key, record)]

\* the key of a name or title: name.strip().lower()
KeyOf(name) == Lower(Strip(name))

has_record(data, name) == HasKey(data, KeyOf(name))

get_record(data, name) == GetItem(data, KeyOf(name))

\* remove_record that looks the name up as written
remove_record_caseSensitive(data, name) ==
    [ret |-> HasKey(data, Strip(name)), data |-> PopItem(data, Strip(name))]

remove_record(data, name) ==
    [ret |-> HasKey(data, KeyOf(name)), data |-> PopItem(data, KeyOf(name))]

Note(title, text, created) ==
    [title |-> title, text |-> text, tags |-> {}, created |-> created]

add_tags_asWritten(note, tags) ==
    [note EXCEPT !.tags = @ \cup {tags[i] : i \in 1..Len(tags)}]

add_tags(note, tags) ==
    [note EXCEPT !.tags = @ \cup {Lower(Strip(tags[i])) :
                                    i \in {j \in 1..Len(tags) : Strip(tags[j]) # ""}}]

remove_tag(note, tag) ==
    LET t == Lower(Strip(tag)) IN
    IF t \in note.tags
    THEN [ret |-> TRUE, note |-> [note EXCEPT !.tags = @ \ {t}]]
    ELSE [ret |-> FALSE, note |-> note]

NoteBook_add_overwrite(data, note) ==
    [exc |-> NoExc, val |-> "", data |-> SetItem(data, KeyOf(note.title), note)]

NoteBook_add(data, note) ==
    LET key == KeyOf(note.title) IN
    IF HasKey(data, key)
    THEN [exc |-> "KeyError", val |-> "Note '" \o note.title \o "' already exists.",
          data |-> data]
    ELSE [exc |-> NoExc, val |-> "", data |-> SetItem(data, key, note)]

has_note(data, title) == HasKey(data, KeyOf(title))

get_note(data, title) == GetItem(data, KeyOf(title))

NoteBook_remove(data, title) ==
    [ret |-> HasKey(data, KeyOf(title)), data |-> PopItem(data, KeyOf(title))]

(***************************************************************************)
(* Ordering of str values (by code point) and sorted().                    *)
(***************************************************************************)
RECURSIVE StrLess(_, _)
StrLess(a, b) ==
    LET CodePoints ==
            " !#$%&'()*+,-./0123456789:;<=>?@ABCDEFGHIJKLMNOPQRSTUVWXYZ[]^_abcdefghijklmnopqrstuvwxyz{|}~"
        Ord(c) == CHOOSE i \in 1..Len(CodePoints) : Char(CodePoints, i) = c
    IN  IF b = "" THEN FALSE
        ELSE IF a = "" THEN TRUE
        ELSE IF Char(a, 1) = Char(b, 1)
        THEN StrLess(SubSeq(a, 2, Len(a)), SubSeq(b, 2, Len(b)))
        ELSE Ord(Char(a, 1)) < Ord(Char(b, 1))

\* stable insertion of the pair e = <<key, item>> into the sorted sequence of pairs
RECURSIVE InsertSorted(_, _)
InsertSorted(sortedPairs, e) ==
    IF sortedPairs = <<>> THEN <<e>>
    ELSE LET lastPair == sortedPairs[Len(sortedPairs)] IN
         IF StrLess(e[1], lastPair[1])
         THEN Append(InsertSorted(SubSeq(sortedPairs, 1, Len(sortedPairs) - 1), e), lastPair)
         ELSE Append(sortedPairs, e)

\* sorted(items, key=...) for the pairs <<key(item), item>>
SortedByKey(pairs) ==
    LET RECURSIVE SortPairs(_)
        SortPairs(ps) ==
            IF ps = <<>> THEN <<>>
            ELSE InsertSorted(SortPairs(SubSeq(ps, 1, Len(ps) - 1)), ps[Len(ps)])
        sp == SortPairs(pairs)
    IN  [i \in 1..Len(sp) |-> sp[i][2]]

RECURSIVE Contains(_, _)
Contains(hay, needle) ==
    IF StartsWith(hay, needle) THEN TRUE
    ELSE IF hay = "" THEN FALSE
    ELSE Contains(SubSeq(hay, 2, Len(hay)), needle)

RECURSIVE FilterSeq(_, _)
FilterSeq(seq, keep) ==
    IF seq = <<>> THEN <<>>
    ELSE IF seq[1] \in keep THEN <<seq[1]>> \o FilterSeq(Tail(seq), keep)
    ELSE FilterSeq(Tail(seq), keep)

Values(data) == [i \in 1..Len(data) |-> data[i].rec]

RecordStr(rec) ==
    Join(" | ",
         <<"Name: " \o rec.name>>
         \o (IF rec.phones # <<>> THEN <<"Phones: " \o Join(", ", rec.phones)>> ELSE <<>>)
         \o (IF rec.emails # <<>> THEN <<"Emails: " \o Join(", ", rec.emails)>> ELSE <<>>)
         \o (IF rec.address # <<>> THEN <<"Address: " \o rec.address[1]>> ELSE <<>>)
         \o (IF rec.birthday # <<>> THEN <<"Birthday: " \o rec.birthday[1]>> ELSE <<>>))

RecordMatches(rec, q) ==
    LET hay == <<Lower(rec.name)>> \o rec.phones
                 \o [i \in 1..Len(rec.emails) |-> Lower(rec.emails[i])]
                 \o <<IF rec.address # <<>> THEN Lower(rec.address[1]) ELSE "">>
                 \o <<IF rec.birthday # <<>> THEN rec.birthday[1] ELSE "">>
    IN  \E i \in 1..Len(hay) : hay[i] # "" /\ Contains(Lower(hay[i]), q)

search(data, query) ==
    LET q == Strip(Lower(query)) IN
    FilterSeq(Values(data), {r \in {data[i].rec : i \in 1..Len(data)} : RecordMatches(r, q)})

AddressBook_all(data) ==
    SortedByKey([i \in 1..Len(data) |-> <<Lower(data[i].rec.name), data[i].rec>>])

(***************************************************************************)
(* Command handlers (commands.py).  A handler runs on the storage (c, n)   *)
(* and either returns a string or raises; in both cases it leaves the      *)
(* storage as it was at that point.                                        *)
(***************************************************************************)
Ret(val, c, n) == [exc |-> NoExc, val |-> val, contacts |-> c, notes |-> n]

Raise(exc, msg, c, n) == [exc |-> exc, val |-> msg, contacts |-> c, notes |-> n]

EXIT == "__EXIT__"

cmd_add(args, c, n) ==
    LET name_arg == args[1]
        hasPhone == Len(args) > 1
    IN  IF hasPhone /\ ~PhoneValid(args[2])
        THEN Raise("ValueError", PhoneError, c, n)
        ELSE LET phone == IF hasPhone THEN PhoneValue(args[2]) ELSE "" IN
             IF ~has_record(c, name_arg)
             THEN LET rec0 == Record(Name(name_arg))
                      rec == IF hasPhone THEN add_phone(rec0, phone) ELSE rec0
                      r == add_record(c, rec)
                  IN  IF r.exc # NoExc
                      THEN Raise(r.exc, r.val, r.data, n)
                      ELSE Ret(IF hasPhone
                               THEN "Added contact " \o rec.name \o " with phone "
                                        \o phone \o "."
                               ELSE "Added contact " \o rec.name \o ".",
                               r.data, n)
             ELSE LET rec == get_record(c, name_arg) IN
                  IF ~hasPhone
                  THEN Ret("Contact " \o rec.name
                               \o " already exists. Provide a phone to add.", c, n)
                  ELSE IF InSeq(phone, rec.phones)
                  THEN Ret("Phone " \o phone \o " already exists for " \o rec.name \o ".",
                           c, n)
                  ELSE Ret("Phone added for " \o rec.name \o ".",
                           SetItem(c, KeyOf(name_arg), add_phone(rec, phone)), n)

cmd_change(args, c, n) ==
    IF ~has_record(c, args[1]) THEN Raise("KeyError", args[1], c, n)
    ELSE LET rec == get_record(c, args[1])
             r == edit_phone(rec, args[2], args[3])
             c2 == SetItem(c, KeyOf(args[1]), r.rec)
         IN  IF r.exc # NoExc THEN Raise(r.exc, r.val, c2, n)
             ELSE Ret("Phone updated for " \o r.rec.name \o ".", c2, n)

cmd_add_birthday(args, c, n) ==
    IF ~has_record(c, args[1]) THEN Raise("KeyError", args[1], c, n)
    ELSE IF ~BirthdayValid(args[2]) THEN Raise("ValueError", BirthdayError, c, n)
    ELSE LET rec == set_birthday(get_record(c, args[1]), BirthdayValue(args[2])) IN
         Ret("Birthday set for " \o rec.name \o ".", SetItem(c, KeyOf(args[1]), rec), n)

cmd_add_email(args, c, n) ==
    IF ~has_record(c, args[1]) THEN Raise("KeyError", args[1], c, n)
    ELSE IF ~EmailValid(args[2]) THEN Raise("ValueError", EmailError, c, n)
    ELSE LET rec == add_email(get_record(c, args[1]), EmailValue(args[2])) IN
         Ret("Email added for " \o rec.name \o ".", SetItem(c, KeyOf(args[1]), rec), n)

cmd_remove_email(args, c, n) ==
    IF ~has_record(c, args[1]) THEN Raise("KeyError", args[1], c, n)
    ELSE LET r == remove_email(get_record(c, args[1]), args[2])
             c2 == SetItem(c, KeyOf(args[1]), r.rec)
         IN  IF r.ret THEN Ret("Email removed for " \o r.rec.name \o ".", c2, n)
             ELSE Ret("Email not found.", c2, n)

cmd_set_address(args, c, n) ==
    IF ~has_record(c, args[1]) THEN Raise("KeyError", args[1], c, n)
    ELSE LET address_text == Strip(Join(" ", Tail(args))) IN
         IF address_text = "" THEN Raise("ValueError", "Address cannot be empty.", c, n)
         ELSE LET rec == set_address(get_record(c, args[1]), Address(address_text)) IN
              Ret("Address set for " \o rec.name \o ".",
                  SetItem(c, KeyOf(args[1]), rec), n)

\* cmd_remove_phone that drops a record left without phones
cmd_remove_phone_dropEmpty(args, c, n) ==
    IF ~has_record(c, args[1]) THEN Raise("KeyError", args[1], c, n)
    ELSE LET r == remove_phone(get_record(c, args[1]), args[2]) IN
         IF r.ret
         THEN Ret("Phone removed for " \o r.rec.name \o ".",
                  IF r.rec.phones = <<>> THEN PopItem(c, KeyOf(args[1]))
                  ELSE SetItem(c, KeyOf(args[1]), r.rec), n)
         ELSE Ret("Phone not found.", c, n)

cmd_remove_phone(args, c, n) ==
    IF ~has_record(c, args[1]) THEN Raise("KeyError", args[1], c, n)
    ELSE LET r == remove_phone(get_record(c, args[1]), args[2])
             c2 == SetItem(c, KeyOf(args[1]), r.rec)
         IN  IF r.ret THEN Ret("Phone removed for " \o r.rec.name \o ".", c2, n)
             ELSE Ret("Phone not found.", c2, n)

cmd_remove_address(args, c, n) ==
    IF ~has_record(c, args[1]) THEN Raise("KeyError", args[1], c, n)
    ELSE LET r == remove_address(get_record(c, args[1]))
             c2 == SetItem(c, KeyOf(args[1]), r.rec)
         IN  IF r.ret THEN Ret("Address removed for " \o r.rec.name \o ".", c2, n)
             ELSE Ret("No address to remove.", c2, n)

cmd_delete_contact(args, c, n) ==
    LET r == remove_record(c, args[1]) IN
    IF r.ret THEN Ret("Deleted contact '" \o args[1] \o "'.", r.data, n)
    ELSE Ret("Contact not found.", r.data, n)

cmd_add_note(args, c, n, now) ==
    LET text == Strip(Join(" ", Tail(args))) IN
    IF text = "" THEN Raise("ValueError", "Note text cannot be empty.", c, n)
    ELSE LET r == NoteBook_add(n, Note(args[1], text, now)) IN
         IF r.exc # NoExc THEN Raise(r.exc, r.val, c, r.data)
         ELSE Ret("Note added: " \o args[1], c, r.data)

\* cmd_edit_note that assigns the text before it checks it
cmd_edit_note_assignFirst(args, c, n) ==
    IF ~has_note(n, args[1]) THEN Raise("KeyError", args[1], c, n)
    ELSE LET new_text == Strip(Join(" ", Tail(args)))
             n2 == SetItem(n, KeyOf(args[1]),
                           [get_note(n, args[1]) EXCEPT !.text = new_text])
         IN  IF new_text = "" THEN Raise("ValueError", "Note text cannot be empty.", c, n2)
             ELSE Ret("Note updated: " \o args[1], c, n2)

\* cmd_edit_note that puts a new Note in the place of the old one
cmd_edit_note_rebuild(args, c, n) ==
    IF ~has_note(n, args[1]) THEN Raise("KeyError", args[1], c, n)
    ELSE LET new_text == Strip(Join(" ", Tail(args))) IN
         IF new_text = "" THEN Raise("ValueError", "Note text cannot be empty.", c, n)
         ELSE Ret("Note updated: " \o args[1], c,
                  SetItem(n, KeyOf(args[1]), Note(args[1], new_text, 1)))

cmd_edit_note(args, c, n) ==
    IF ~has_note(n, args[1]) THEN Raise("KeyError", args[1], c, n)
    ELSE LET new_text == Strip(Join(" ", Tail(args))) IN
         IF new_text = "" THEN Raise("ValueError", "Note text cannot be empty.", c, n)
         ELSE Ret("Note updated: " \o args[1], c,
                  SetItem(n, KeyOf(args[1]),
                          [get_note(n, args[1]) EXCEPT !.text = new_text]))

cmd_tag_add(args, c, n) ==
    IF ~has_note(n, args[1]) THEN Raise("KeyError", args[1], c, n)
    ELSE Ret("Tags added to '" \o args[1] \o "': " \o 
                 Join(", ", SortedByKey([i \in 1..(Len(args) - 1) |->
                                            <<args[i + 1], args[i + 1]>>])),
             c, SetItem(n, KeyOf(args[1]), add_tags(get_note(n, args[1]), Tail(args))))

cmd_tag_remove(args, c, n) ==
    IF ~has_note(n, args[1]) THEN Raise("KeyError", args[1], c, n)
    ELSE LET r == remove_tag(get_note(n, args[1]), args[2])
             n2 == SetItem(n, KeyOf(args[1]), r.note)
         IN  IF r.ret THEN Ret("Tag removed from '" \o args[1] \o "'.", c, n2)
             ELSE Ret("Tag not found.", c, n2)

cmd_delete_note(args, c, n) ==
    LET r == NoteBook_remove(n, args[1]) IN
    IF r.ret THEN Ret("Deleted note '" \o args[1] \o "'.", c, r.data)
    ELSE Ret("Note not found.", c, r.data)

\* cmd_phone that answers with the bare name for a record without phones
cmd_phone_bareName(args, c, n) ==
    IF ~has_record(c, args[1]) THEN Raise("KeyError", args[1], c, n)
    ELSE LET rec == get_record(c, args[1]) IN
         IF rec.phones = <<>> THEN Ret(rec.name, c, n)
         ELSE Ret(rec.name \o ": " \o Join(", ", rec.phones), c, n)

cmd_phone(args, c, n) ==
    IF ~has_record(c, args[1]) THEN Raise("KeyError", args[1], c, n)
    ELSE LET rec == get_record(c, args[1]) IN
         IF rec.phones = <<>> THEN Ret("No phone numbers for " \o rec.name \o ".", c, n)
         ELSE Ret(rec.name \o ": " \o Join(", ", rec.phones), c, n)

cmd_all(args, c, n) ==
    LET items == AddressBook_all(c) IN
    IF items = <<>> THEN Ret("No contacts.", c, n)
    ELSE Ret(Join("\n", [i \in 1..Len(items) |-> RecordStr(items[i])]), c, n)

cmd_show_birthday(args, c, n) ==
    IF ~has_record(c, args[1]) THEN Raise("KeyError", args[1], c, n)
    ELSE LET rec == get_record(c, args[1]) IN
         IF rec.birthday = <<>> THEN Ret("No birthday for " \o rec.name \o ".", c, n)
         ELSE Ret(rec.name \o ": " \o rec.birthday[1], c, n)

cmd_find(args, c, n) ==
    LET res == search(c, args[1]) IN
    IF res = <<>> THEN Ret("No results.", c, n)
    ELSE Ret(Join("\n", [i \in 1..Len(res) |-> RecordStr(res[i])]), c, n)

\* the greeting is written in ASCII
cmd_hello(args, c, n) == Ret("Pryvit! Chym mozhu dopomohty?", c, n)

\* cmd_exit that answers with a farewell instead of the exit signal
cmd_exit_farewell(args, c, n) == Ret("Bye!", c, n)

cmd_exit(args, c, n) == Ret(EXIT, c, n)

(***************************************************************************)
(* Calendar dates [y, m, d] and the birthday computations of Record and    *)
(* AddressBook.                                                            *)
(***************************************************************************)
toordinal(dt) ==
    LET RECURSIVE DaysBeforeMonth(_)
        DaysBeforeMonth(m) ==
            IF m = 1 THEN 0 ELSE DaysBeforeMonth(m - 1) + DaysInMonth(dt.y, m - 1)
    IN  365 * (dt.y - 1) + ((dt.y - 1) \div 4) - ((dt.y - 1) \div 100)
            + ((dt.y - 1) \div 400) + DaysBeforeMonth(dt.m) + dt.d

date(y, m, d) == [y |-> y, m |-> m, d |-> d]

\* strftime("%A")
WeekdayName(dt) ==
    <<"Monday", "Tuesday", "Wednesday", "Thursday", "Friday", "Saturday", "Sunday">>
        [((toordinal(dt) - 1) % 7) + 1]

\* BirthdayInYear that keeps 29 February in every year
BirthdayInYear_noStandIn(born, year) == date(year, born.m, born.d)

\* the date(year, month, day) of the birthday in the given year, 1 March
\* standing in for 29 February when the year is not leap
BirthdayInYear(born, year) ==
    IF born.m = 2 /\ born.d = 29 /\ ~isleap(year)
    THEN date(year, 3, 1)
    ELSE date(year, born.m, born.d)

\* get_next_birthday that never moves on to the next year
get_next_birthday_thisYear(rec, today) ==
    IF rec.birthday = <<>> THEN <<>>
    ELSE <<BirthdayInYear(as_date(rec.birthday[1]), today.y)>>

get_next_birthday(rec, today) ==
    IF rec.birthday = <<>> THEN <<>>
    ELSE IF toordinal(BirthdayInYear(as_date(rec.birthday[1]), today.y)) < toordinal(today)
    THEN <<BirthdayInYear(as_date(rec.birthday[1]), today.y + 1)>>
    ELSE <<BirthdayInYear(as_date(rec.birthday[1]), today.y)>>

days_to_birthday(rec, today) ==
    IF rec.birthday = <<>> THEN <<>>
    ELSE <<toordinal(get_next_birthday(rec, today)[1]) - toordinal(today)>>

\* BirthdayTuples that sorts by the name as written
BirthdayTuples_caseSensitive(rs, today) ==
    [i \in 1..Len(rs) |->
        <<rs[i].name,
          <<rs[i].name, rs[i].birthday[1], WeekdayName(get_next_birthday(rs[i], today)[1])>> >>]

\* the tuples (name, dd.mm.yyyy, weekday) of the records rs, each with its
\* sort key
BirthdayTuples(rs, today) ==
    [i \in 1..Len(rs) |->
        <<Lower(rs[i].name),
          <<rs[i].name, rs[i].birthday[1], WeekdayName(get_next_birthday(rs[i], today)[1])>> >>]

\* the mapping delta -> tuples as the sequence of its items [delta, items]
\* in the order of the keys of the dict
upcoming_birthdays(data, days, today) ==
    LET \* the records the loop does not skip, in the order of data.values()
        Kept(ps) ==
            FilterSeq(ps, {p \in {ps[i] : i \in 1..Len(ps)} :
                              p.delta # <<>> /\ p.delta[1] >= 0 /\ p.delta[1] <= days})
        \* sorted(bucket.items(), key=lambda kv: kv[0])
        RECURSIVE Insert(_, _)
        Insert(ks, d) ==
            IF ks = <<>> THEN <<d>>
            ELSE IF d < ks[Len(ks)]
            THEN Append(Insert(SubSeq(ks, 1, Len(ks) - 1), d), ks[Len(ks)])
            ELSE Append(ks, d)
        RECURSIVE SortedKeys(_)
        SortedKeys(ks) ==
            IF ks = <<>> THEN <<>>
            ELSE Insert(SortedKeys(SubSeq(ks, 1, Len(ks) - 1)), ks[Len(ks)])
        Group(ps) == SortedByKey(BirthdayTuples([i \in 1..Len(ps) |-> ps[i].rec], today))
        Items(ps, keys) ==
            [g \in 1..Len(keys) |->
                [delta |-> keys[g],
                 items |-> Group(FilterSeq(ps, {p \in {ps[i] : i \in 1..Len(ps)} :
                                                  p.delta = <<keys[g]>>}))]]
        \* bucket.setdefault: the keys in the order of their first record
        Bucket(ps) ==
            LET RECURSIVE Keys(_)
                Keys(k) ==
                    IF k = 0 THEN <<>>
                    ELSE IF InSeq(ps[k].delta[1], Keys(k - 1)) THEN Keys(k - 1)
                    ELSE Append(Keys(k - 1), ps[k].delta[1])
            IN  Items(ps, SortedKeys(Keys(Len(ps))))
    IN  Bucket(Kept([i \in 1..Len(data) |->
                        [rec |-> data[i].rec,
                         delta |-> days_to_birthday(data[i].rec, today)]]))

RECURSIVE NatToStr(_)
NatToStr(n) ==
    IF n < 10 THEN Char("0123456789", n + 1)
    ELSE NatToStr(n \div 10) \o Char("0123456789", (n % 10) + 1)

RECURSIVE Flatten(_)
Flatten(seqs) == IF seqs = <<>> THEN <<>> ELSE seqs[1] \o Flatten(Tail(seqs))

\* the lines of cmd_birthdays for items, the [delta, item] of the bucket in
\* order; the emoji and the dash of the lines are written in ASCII
BirthdayLines(items, c, n, today) ==
    IF items = <<>> THEN Ret("No upcoming birthdays.", c, n)
    ELSE IF \E i \in 1..Len(items) : ~has_record(c, items[i].item[1])
    THEN Raise("KeyError",
               items[CHOOSE i \in 1..Len(items) :
                        /\ ~has_record(c, items[i].item[1])
                        /\ \A j \in 1..(i - 1) : has_record(c, items[j].item[1])].item[1],
               c, n)
    ELSE Ret(Join("\n",
                  [i \in 1..Len(items) |->
                      "* Congrats " \o items[i].item[1] \o " - "
                      \o (IF items[i].delta = 0 THEN "today! ("
                          ELSE IF items[i].delta = 1 THEN "tomorrow! ("
                          ELSE "in " \o NatToStr(items[i].delta) \o " days (")
                      \o strftime(get_next_birthday(get_record(c, items[i].item[1]),
                                                    today)[1])
                      \o ", " \o items[i].item[3] \o ")"]),
             c, n)

\* days = 7
cmd_birthdays(args, c, n, today) ==
    LET Items(bucket) ==
            Flatten([g \in 1..Len(bucket) |->
                [i \in 1..Len(bucket[g].items) |->
                    [delta |-> bucket[g].delta, item |-> bucket[g].items[i]]]])
    IN  BirthdayLines(Items(upcoming_birthdays(c, 7, today)), c, n, today)

(***************************************************************************)
(* Note listings.  A creation time is a number of minutes after midnight   *)
(* of one fixed day.                                                       *)
(***************************************************************************)
NoteBook_all(data, sort_by) ==
    IF sort_by = "created"
    THEN SortedByKey([i \in 1..Len(data) |-> <<Pad4(data[i].rec.created), data[i].rec>>])
    ELSE SortedByKey([i \in 1..Len(data) |-> <<Lower(data[i].rec.title), data[i].rec>>])

search_text(data, query) ==
    LET q == Strip(Lower(query)) IN
    FilterSeq(Values(data),
              {x \in {data[i].rec : i \in 1..Len(data)} :
                  Contains(Lower(x.text), q) \/ Contains(Lower(x.title), q)})

search_tag(data, tag) ==
    LET t == Strip(Lower(tag)) IN
    FilterSeq(Values(data), {x \in {data[i].rec : i \in 1..Len(data)} : t \in x.tags})

RECURSIVE SetToSortedSeq(_)
SetToSortedSeq(S) ==
    IF S = {} THEN <<>>
    ELSE LET m == CHOOSE x \in S : \A y \in S : x = y \/ StrLess(x, y)
         IN  <<m>> \o SetToSortedSeq(S \ {m})

TagsStr(note) ==
    IF note.tags # {} THEN "#" \o Join(" #", SetToSortedSeq(note.tags)) ELSE "(no tags)"

Separator == "\n" \o "----------------------------------------" \o "\n"

cmd_list_notes(args, c, n) ==
    LET sort_by == Lower(Strip(IF args # <<>> THEN args[1] ELSE "title"))
        items == NoteBook_all(n, sort_by)
    IN  IF items = <<>> THEN Ret("No notes.", c, n)
        ELSE Ret(Separator
                 \o Join(Separator,
                         [i \in 1..Len(items) |->
                             items[i].title \o " [" \o TagsStr(items[i]) \o "] - "
                                 \o "2025-01-01 " \o Pad2(items[i].created \div 60) \o ":"
                                 \o Pad2(items[i].created % 60) \o "\n" \o items[i].text])
                 \o Separator, c, n)

NotesOut(res) ==
    Separator
    \o Join(Separator,
            [i \in 1..Len(res) |->
                res[i].title \o " [" \o TagsStr(res[i]) \o "]" \o "\n" \o res[i].text])
    \o Separator

cmd_find_note(args, c, n) ==
    LET res == search_text(n, args[1]) IN
    IF res = <<>> THEN Ret("No results.", c, n) ELSE Ret(NotesOut(res), c, n)

cmd_find_tag(args, c, n) ==
    LET res == search_tag(n, args[1]) IN
    IF res = <<>> THEN Ret("No results.", c, n) ELSE Ret(NotesOut(res), c, n)

(***************************************************************************)
(* CommandRegistry (commands.py): the methods.                             *)
(***************************************************************************)
\* the dict.get(key, default) of the tables _help and _min_args
RegGet(key) == IF key \in Registered THEN Entry(key) ELSE Reg("", "", 0, FALSE)

\* resolve that takes a registered name starting with the token for a match
resolve_byPrefix(name) ==
    IF \E k \in Registered : StartsWith(k, Lower(Strip(name)))
    THEN <<CHOOSE k \in Registered : StartsWith(k, Lower(Strip(name)))>>
    ELSE <<>>

\* None is <<>>, a resolved key k is <<k>>
resolve(name) == SelectSeq(<<Lower(Strip(name))>>, LAMBDA k : k \in Registered)

get_help(name) == RegGet(Lower(Strip(name))).help

\* validate_args that never puts the help text in its message
validate_args_noUsage(cmd_name, args, entry) ==
    IF Len(args) < entry.min_args
    THEN [exc |-> "IndexError",
          val |-> "Command '" \o cmd_name \o "' requires at least "
                      \o NatToStr(entry.min_args) \o " argument(s)"]
    ELSE [exc |-> NoExc, val |-> ""]

\* entry is what the tables hold for cmd_name.strip().lower()
validate_args(cmd_name, args, entry) ==
    IF Len(args) < entry.min_args
    THEN IF entry.help # ""
         THEN [exc |-> "IndexError", val |-> "Not enough arguments. " \o entry.help]
         ELSE [exc |-> "IndexError",
               val |-> "Command '" \o cmd_name \o "' requires at least "
                           \o NatToStr(entry.min_args) \o " argument(s)"]
    ELSE [exc |-> NoExc, val |-> ""]

\* the fixed lines of the help text are transliterated to ASCII
help_text ==
    LET cmds(section) ==
            FilterSeq(SetToSortedSeq(Registered), {k \in Registered : Entry(k).section = section})
        block(section) ==
            IF cmds(section) = <<>> THEN <<>>
            ELSE <<"", section \o ":">>
                 \o [i \in 1..Len(cmds(section)) |->
                        "  - " \o cmds(section)[i] \o ": " \o Entry(cmds(section)[i]).help]
    IN  Join("\n",
             <<"Dostupni komandy:">>
             \o Flatten([i \in 1..Len(SECTION_ORDER) |-> block(SECTION_ORDER[i])])
             \o <<"", "Dlia detalei shchodo konkretnoi komandy vykorystovuite: help <command>">>)

cmd_help(args, c, n) ==
    IF args # <<>>
    THEN LET resolved == resolve(Lower(Strip(args[1]))) IN
         IF resolved = <<>> THEN Ret("Unknown command: '" \o args[1] \o "'", c, n)
         ELSE Ret("Command: " \o resolved[1] \o "\n" \o "Description: "
                      \o get_help(resolved[1]), c, n)
    ELSE Ret(help_text, c, n)

\* APP_NAME, APP_VERSION and STORAGE_FILE are "Assistant", "1.0" and
\* "storage.pkl"
cmd_version(args, c, n) == Ret("Assistant v1.0 | data: storage.pkl", c, n)

(***************************************************************************)
(* The decorators input_error and mutating (commands.py) and               *)
(* save_storage.  A wrapped call yields exc/val and the storage it left,   *)
(* the number of calls of save_storage it made and what is on disk.        *)
(***************************************************************************)
SaveErrorText == "cannot write storage file"

\* outcome is what the storage backend does with this call: NoExc or the
\* class of the exception it raises
save_storage(c, n, onDisk, outcome) ==
    IF outcome = NoExc
    THEN [exc |-> NoExc, val |-> "", saved |-> [contacts |-> c, notes |-> n]]
    ELSE [exc |-> outcome, val |-> SaveErrorText, saved |-> onDisk]

Call(r, saves, onDisk) ==
    [exc |-> r.exc, val |-> r.val, contacts |-> r.contacts, notes |-> r.notes,
     saves |-> saves, saved |-> onDisk]

\* mutating.inner that takes every result starting with "E" for an error
mutating_inner_looseErrorTest(r, onDisk, outcome) ==
    IF r.exc # NoExc THEN Call(r, 0, onDisk)
    ELSE IF r.val # "" /\ ~StartsWith(r.val, "E") /\ r.val # EXIT
    THEN LET sv == save_storage(r.contacts, r.notes, onDisk, outcome) IN
         IF sv.exc # NoExc
         THEN Call(Raise(sv.exc, sv.val, r.contacts, r.notes), 1, sv.saved)
         ELSE Call(r, 1, sv.saved)
    ELSE Call(r, 0, onDisk)

\* mutating.inner that swallows a failure of save_storage
mutating_inner_swallow(r, onDisk, outcome) ==
    IF r.exc # NoExc THEN Call(r, 0, onDisk)
    ELSE IF r.val # "" /\ ~StartsWith(r.val, "Error") /\ r.val # EXIT
    THEN Call(r, 1, save_storage(r.contacts, r.notes, onDisk, outcome).saved)
    ELSE Call(r, 0, onDisk)

mutating_inner(r, onDisk, outcome) ==
    IF r.exc # NoExc THEN Call(r, 0, onDisk)
    ELSE IF r.val # "" /\ ~StartsWith(r.val, "Error") /\ r.val # EXIT
    THEN LET sv == save_storage(r.contacts, r.notes, onDisk, outcome) IN
         IF sv.exc # NoExc
         THEN Call(Raise(sv.exc, sv.val, r.contacts, r.notes), 1, sv.saved)
         ELSE Call(r, 1, sv.saved)
    ELSE Call(r, 0, onDisk)

\* input_error.inner without the last except clause
input_error_inner_noCatchAll(w) ==
    IF w.exc = NoExc THEN w
    ELSE IF w.exc = "KeyError" THEN [w EXCEPT !.exc = NoExc, !.val = "Not found: '" \o @ \o "'."]
    ELSE IF w.exc = "ValueError" THEN [w EXCEPT !.exc = NoExc, !.val = "Value error: " \o @]
    ELSE IF w.exc = "IndexError"
    THEN [w EXCEPT !.exc = NoExc,
                   !.val = IF @ # "" THEN @ ELSE "Not enough arguments. Use: help"]
    ELSE w

input_error_inner(w) ==
    IF w.exc = NoExc THEN w
    ELSE IF w.exc = "KeyError" THEN [w EXCEPT !.exc = NoExc, !.val = "Not found: '" \o @ \o "'."]
    ELSE IF w.exc = "ValueError" THEN [w EXCEPT !.exc = NoExc, !.val = "Value error: " \o @]
    ELSE IF w.exc = "IndexError"
    THEN [w EXCEPT !.exc = NoExc,
                   !.val = IF @ # "" THEN @ ELSE "Not enough arguments. Use: help"]
    ELSE [w EXCEPT !.exc = NoExc, !.val = "Error: " \o @]

\* no handler decorated with mutating
wrapped_noneMutating(key, r, onDisk, outcome) ==
    input_error_inner(Call(r, 0, onDisk))

\* every handler decorated with mutating
wrapped_allMutating(key, r, onDisk, outcome) ==
    input_error_inner(mutating_inner(r, onDisk, outcome))

\* the registered (decorated) handler of key, r being what the undecorated
\* handler does with the call
wrapped(key, r, onDisk, outcome) ==
    IF Entry(key).mutating
    THEN input_error_inner(mutating_inner(r, onDisk, outcome))
    ELSE input_error_inner(Call(r, 0, onDisk))

(***************************************************************************)
(* run_cli (cli.py): one pass of the loop body for a non-empty line whose  *)
(* tokens are <<token>> \o args.                                           *)
(***************************************************************************)
parse_input(token, args) == [cmd |-> Lower(token), args |-> args]

Weight(c, n) ==
    LET RecWeight(r) == 1 + Len(r.phones) + Len(r.emails) + Len(r.address) + Len(r.birthday)
        NoteWeight(x) == 1 + Cardinality(x.tags)
        RECURSIVE RecSum(_)
        RecSum(i) == IF i = 0 THEN 0 ELSE RecWeight(c[i].rec) + RecSum(i - 1)
        RECURSIVE NoteSum(_)
        NoteSum(i) == IF i = 0 THEN 0 ELSE NoteWeight(n[i].rec) + NoteSum(i - 1)
    IN  RecSum(Len(c)) + NoteSum(Len(n))

Last(kind, token, cmd, args, invoked, exc, saves, saveExc, out, printed) ==
    [kind |-> kind, token |-> token, cmd |-> cmd, args |-> args, invoked |-> invoked, exc |-> exc,
     saves |-> saves, saveExc |-> saveExc, out |-> out, printed |-> printed]

Idle == Last("", "", "", <<>>, FALSE, NoExc, 0, NoExc, "", FALSE)

\* lines 167-175 of run_cli: v is what validate_args did and w what the
\* registered handler does when it is called; the locals of the pass are
\* kept in last until the loop is back at the prompt
Outcome(token, key, args, v, w, raw, saveOutcome, maxSize) ==
    IF v.exc # NoExc
    THEN \* raised inside the try of run_cli: an IndexError
         /\ last' = Last("command", token, key, args, FALSE, NoExc, 0, NoExc, v.val, v.val # EXIT)
         /\ running' = IF v.val = EXIT THEN "done" ELSE "iterated"
         /\ UNCHANGED <<contacts, notes, saved, saveFailures>>
    ELSE /\ contacts' = w.contacts
         /\ notes' = w.notes
         /\ saved' = w.saved
         /\ saveFailures' = IF w.saves > 0 /\ saveOutcome # NoExc THEN saveFailures + 1
                            ELSE saveFailures
         /\ Weight(w.contacts, w.notes) + saveFailures' <= maxSize
         /\ running' = IF w.exc \notin {NoExc, "IndexError"} THEN "crashed"
                       ELSE IF w.val = EXIT THEN "done" ELSE "iterated"
         /\ last' = Last("command", token, key, args, TRUE, raw.exc, w.saves,
                         IF w.saves > 0 THEN saveOutcome ELSE NoExc,
                         IF w.exc \notin {NoExc, "IndexError"} THEN "" ELSE w.val,
                         w.exc \in {NoExc, "IndexError"} /\ w.val # EXIT)

\* lines 163-175 of run_cli, resolved being what REG.resolve returned
Dispatch(token, resolved, args, saveOutcome, raw, maxSize) ==
    IF resolved = <<>>
    THEN /\ last' = Last("unknown", token, "", args, FALSE, NoExc, 0, NoExc,
                         "Unknown command. Type 'help'.", TRUE)
         /\ running' = "iterated"
         /\ UNCHANGED <<contacts, notes, saved, saveFailures>>
    ELSE Outcome(token, resolved[1], args,
                 validate_args(resolved[1], args, RegGet(Lower(Strip(resolved[1])))),
                 wrapped(resolved[1], raw, saved, saveOutcome),
                 raw, saveOutcome, maxSize)

\* lines 160-175 of run_cli for the line <<token>> \o args; raw is what the
\* undecorated handler of the command does with args and the storage, env
\* what the clock and the storage backend do
Loop(token, args, env, raw, maxSize) ==
    /\ running = "prompt"
    /\ Dispatch(token, resolve(parse_input(token, args).cmd),
                parse_input(token, args).args,
                env.save, raw, maxSize)

\* line 157-158: an empty line
EmptyLine ==
    /\ running = "prompt"
    /\ running' = "iterated"
    /\ last' = Last("empty", "", "", <<>>, FALSE, NoExc, 0, NoExc, "", FALSE)
    /\ UNCHANGED <<contacts, notes, saved, saveFailures>>

\* line 153-155: EOFError or KeyboardInterrupt at the prompt
EndOfInput ==
    /\ running = "prompt"
    /\ running' = "done"
    /\ last' = Last("eof", "", "", <<>>, FALSE, NoExc, 0, NoExc, "", FALSE)
    /\ UNCHANGED <<contacts, notes, saved, saveFailures>>

\* back to line 146 for the next line
NextLine ==
    /\ running = "iterated"
    /\ running' = "prompt"
    /\ last' = Idle
    /\ UNCHANGED <<contacts, notes, saved, saveFailures>>

(***************************************************************************)
(* Inputs.                                                                 *)
(***************************************************************************)
\* the clock and the storage backend as one command sees them: now for
\* add-note, today for birthdays, the outcome of save_storage for the
\* mutating commands; a value the command never reads is fixed
Envs(key) ==
    [now : IF key = "add-note" THEN {0, 1} ELSE {0},
     today : IF key = "birthdays"
             THEN {date(2025, 2, 28), date(2024, 2, 28), date(2025, 3, 2)}
             ELSE {date(2025, 2, 28)},
     save : IF Entry(key).mutating THEN {NoExc, "OSError"} ELSE {NoExc}]

\* the argument lists of a command: the full ones and their prefixes
ArgsFor ==
    LET FullArgs(key) ==
            CASE key = "add-contact" -> {<<nm, p>> : nm \in Inputs.names, p \in Inputs.phones}
              [] key = "change-phone" -> {<<nm, p, q>> : nm \in Inputs.names, p \in Inputs.phones, q \in Inputs.phones}
              [] key = "add-birthday" -> {<<nm, b>> : nm \in Inputs.names, b \in Inputs.birthdays}
              [] key \in {"add-email", "delete-email"} -> {<<nm, e>> : nm \in Inputs.names, e \in Inputs.emails}
              [] key = "add-address" -> {<<nm>> \o a : nm \in Inputs.names, a \in Inputs.addresses}
              [] key = "delete-phone" -> {<<nm, p>> : nm \in Inputs.names, p \in Inputs.phones}
              [] key \in {"show-phone", "show-birthday", "delete-address", "delete-contact"} ->
                    {<<nm>> : nm \in Inputs.names}
              [] key \in {"find-contact", "find-note"} -> {<<q>> : q \in Inputs.queries}
              [] key \in {"add-note", "edit-note"} -> {<<t>> \o x : t \in Inputs.titles, x \in Inputs.texts}
              [] key = "add-tags" ->
                    {<<t, g>> : t \in Inputs.titles, g \in Inputs.tags}
                        \cup {<<t, g, h>> : t \in Inputs.titles, g \in Inputs.tags, h \in Inputs.tags}
              [] key = "delete-tag" -> {<<t, g>> : t \in Inputs.titles, g \in Inputs.tags}
              [] key = "delete-note" -> {<<t>> : t \in Inputs.titles}
              [] key = "find-tag" -> {<<g>> : g \in Inputs.tags}
              [] key = "all-notes" -> {<<>>, <<"created">>}
              [] key = "help" -> {<<>>, <<"Exit">>, <<"nope">>}
              [] OTHER -> {<<>>, <<"extra">>}
    IN  [key \in Registered |->
            UNION {{SubSeq(a, 1, k) : k \in 0..Len(a)} : a \in FullArgs(key)}]

(***************************************************************************)
(* The state machine: one action per registered command, one for an        *)
(* unknown first token, one for an empty line and one for end of input.    *)
(***************************************************************************)
Init ==
    /\ contacts = <<>>
    /\ notes = <<>>
    /\ saved = [contacts |-> <<>>, notes |-> <<>>]
    /\ saveFailures = 0
    /\ running = "prompt"
    /\ last = Idle

AddContact ==
    \E args \in ArgsFor["add-contact"] : \E env \in Envs("add-contact") :
        Loop("add-contact", args, env, cmd_add(args, contacts, notes), MaxSize)

ChangePhone ==
    \E args \in ArgsFor["change-phone"] : \E env \in Envs("change-phone") :
        Loop("change-phone", args, env, cmd_change(args, contacts, notes), MaxSize)

ShowPhone ==
    \E args \in ArgsFor["show-phone"] : \E env \in Envs("show-phone") :
        Loop("show-phone", args, env, cmd_phone(args, contacts, notes), MaxSize)

AllContacts ==
    \E args \in ArgsFor["all-contacts"] : \E env \in Envs("all-contacts") :
        Loop("all-contacts", args, env, cmd_all(args, contacts, notes), MaxSize)

AddBirthday ==
    \E args \in ArgsFor["add-birthday"] : \E env \in Envs("add-birthday") :
        Loop("add-birthday", args, env, cmd_add_birthday(args, contacts, notes), MaxSize)

ShowBirthday ==
    \E args \in ArgsFor["show-birthday"] : \E env \in Envs("show-birthday") :
        Loop("show-birthday", args, env, cmd_show_birthday(args, contacts, notes), MaxSize)

Birthdays ==
    \E args \in ArgsFor["birthdays"] : \E env \in Envs("birthdays") :
        Loop("birthdays", args, env, cmd_birthdays(args, contacts, notes, env.today), MaxSize)

AddEmail ==
    \E args \in ArgsFor["add-email"] : \E env \in Envs("add-email") :
        Loop("add-email", args, env, cmd_add_email(args, contacts, notes), MaxSize)

DeleteEmail ==
    \E args \in ArgsFor["delete-email"] : \E env \in Envs("delete-email") :
        Loop("delete-email", args, env, cmd_remove_email(args, contacts, notes), MaxSize)

AddAddress ==
    \E args \in ArgsFor["add-address"] : \E env \in Envs("add-address") :
        Loop("add-address", args, env, cmd_set_address(args, contacts, notes), MaxSize)

DeletePhone ==
    \E args \in ArgsFor["delete-phone"] : \E env \in Envs("delete-phone") :
        Loop("delete-phone", args, env, cmd_remove_phone(args, contacts, notes), MaxSize)

DeleteAddress ==
    \E args \in ArgsFor["delete-address"] : \E env \in Envs("delete-address") :
        Loop("delete-address", args, env, cmd_remove_address(args, contacts, notes), MaxSize)

FindContact ==
    \E args \in ArgsFor["find-contact"] : \E env \in Envs("find-contact") :
        Loop("find-contact", args, env, cmd_find(args, contacts, notes), MaxSize)

DeleteContact ==
    \E args \in ArgsFor["delete-contact"] : \E env \in Envs("delete-contact") :
        Loop("delete-contact", args, env, cmd_delete_contact(args, contacts, notes), MaxSize)

AddNote ==
    \E args \in ArgsFor["add-note"] : \E env \in Envs("add-note") :
        Loop("add-note", args, env, cmd_add_note(args, contacts, notes, env.now), MaxSize)

AllNotes ==
    \E args \in ArgsFor["all-notes"] : \E env \in Envs("all-notes") :
        Loop("all-notes", args, env, cmd_list_notes(args, contacts, notes), MaxSize)

FindNote ==
    \E args \in ArgsFor["find-note"] : \E env \in Envs("find-note") :
        Loop("find-note", args, env, cmd_find_note(args, contacts, notes), MaxSize)

FindTag ==
    \E args \in ArgsFor["find-tag"] : \E env \in Envs("find-tag") :
        Loop("find-tag", args, env, cmd_find_tag(args, contacts, notes), MaxSize)

EditNote ==
    \E args \in ArgsFor["edit-note"] : \E env \in Envs("edit-note") :
        Loop("edit-note", args, env, cmd_edit_note(args, contacts, notes), MaxSize)

AddTags ==
    \E args \in ArgsFor["add-tags"] : \E env \in Envs("add-tags") :
        Loop("add-tags", args, env, cmd_tag_add(args, contacts, notes), MaxSize)

DeleteTag ==
    \E args \in ArgsFor["delete-tag"] : \E env \in Envs("delete-tag") :
        Loop("delete-tag", args, env, cmd_tag_remove(args, contacts, notes), MaxSize)

DeleteNote ==
    \E args \in ArgsFor["delete-note"] : \E env \in Envs("delete-note") :
        Loop("delete-note", args, env, cmd_delete_note(args, contacts, notes), MaxSize)

\* hello as typed in Inputs.hello; a token in quotes can hold spaces
Hello ==
    \E token \in Inputs.hello : \E args \in ArgsFor["hello"] : \E env \in Envs("hello") :
        Loop(token, args, env, cmd_hello(args, contacts, notes), MaxSize)

Help ==
    \E args \in ArgsFor["help"] : \E env \in Envs("help") :
        Loop("help", args, env, cmd_help(args, contacts, notes), MaxSize)

Exit ==
    \E args \in ArgsFor["exit"] : \E env \in Envs("exit") :
        Loop("exit", args, env, cmd_exit(args, contacts, notes), MaxSize)

Close ==
    \E args \in ArgsFor["close"] : \E env \in Envs("close") :
        Loop("close", args, env, cmd_exit(args, contacts, notes), MaxSize)

Version ==
    \E args \in ArgsFor["version"] : \E env \in Envs("version") :
        Loop("version", args, env, cmd_version(args, contacts, notes), MaxSize)

\* REG.handler is not reached for a token that resolve does not know
UnknownCommand ==
    \E token \in Inputs.unknown : \E args \in {<<>>, <<"Ann">>} :
        Loop(token, args, [now |-> 0, today |-> date(2025, 2, 28), save |-> NoExc],
             Raise("KeyError", token, contacts, notes), MaxSize)

Next ==
    \/ AddContact
    \/ ChangePhone
    \/ ShowPhone
    \/ AllContacts
    \/ AddBirthday
    \/ ShowBirthday
    \/ Birthdays
    \/ AddEmail
    \/ DeleteEmail
    \/ AddAddress
    \/ DeletePhone
    \/ DeleteAddress
    \/ FindContact
    \/ DeleteContact
    \/ AddNote
    \/ AllNotes
    \/ FindNote
    \/ FindTag
    \/ EditNote
    \/ AddTags
    \/ DeleteTag
    \/ DeleteNote
    \/ Hello
    \/ Help
    \/ Exit
    \/ Close
    \/ Version
    \/ UnknownCommand
    \/ EmptyLine
    \/ EndOfInput
    \/ NextLine

Spec == Init /\ [][Next]_vars

(***************************************************************************)
(* The commands on phones alone, on larger records.                        *)
(***************************************************************************)
PhonesAddContact ==
    \E args \in ArgsFor["add-contact"] : \E env \in Envs("add-contact") :
        Loop("add-contact", args, env, cmd_add(args, contacts, notes), MaxPhoneBookSize)

PhonesChangePhone ==
    \E args \in ArgsFor["change-phone"] : \E env \in Envs("change-phone") :
        Loop("change-phone", args, env, cmd_change(args, contacts, notes), MaxPhoneBookSize)

PhonesDeletePhone ==
    \E args \in ArgsFor["delete-phone"] : \E env \in Envs("delete-phone") :
        Loop("delete-phone", args, env, cmd_remove_phone(args, contacts, notes), MaxPhoneBookSize)

\* rec.add_phone(Phone(p)) twice on a record of the book, for a valid p
AddPhoneTwice ==
    \E i \in 1..Len(contacts) : \E p \in {q \in Inputs.phones : PhoneValid(q)} :
        /\ last = Idle
        /\ last' = [kind |-> "add_phone", rec |-> contacts[i].rec, phone |-> PhoneValue(p),
                    once |-> add_phone(contacts[i].rec, PhoneValue(p)),
                    twice |-> add_phone(add_phone(contacts[i].rec, PhoneValue(p)),
                                        PhoneValue(p))]
        /\ UNCHANGED <<contacts, notes, saved, saveFailures, running>>

NextPhones ==
    \/ PhonesAddContact
    \/ PhonesChangePhone
    \/ PhonesDeletePhone
    \/ AddPhoneTwice
    \/ NextLine

SpecPhones == Init /\ [][NextPhones]_vars

(***************************************************************************)
(* The commands on emails alone, on larger records.                        *)
(***************************************************************************)
EmailsAddEmail ==
    \E args \in {<<nm, e>> : nm \in Inputs.names, e \in Inputs.bookEmails} :
        \E env \in Envs("add-email") :
            Loop("add-email", args, env, cmd_add_email(args, contacts, notes),
                 MaxPhoneBookSize)

EmailsDeleteEmail ==
    \E args \in {<<nm, e>> : nm \in Inputs.names, e \in Inputs.bookEmails} :
        \E env \in Envs("delete-email") :
            Loop("delete-email", args, env, cmd_remove_email(args, contacts, notes),
                 MaxPhoneBookSize)

NextEmails ==
    \/ PhonesAddContact
    \/ EmailsAddEmail
    \/ EmailsDeleteEmail
    \/ NextLine

SpecEmails == Init /\ [][NextEmails]_vars

(***************************************************************************)
(* The commands on notes and their tags alone, on larger notebooks.        *)
(***************************************************************************)
NoteInputs ==
    [titles |-> {"Todo", "todo ", "Shop"},
     texts |-> {<<"milk">>, <<"eggs">>},
     tags |-> {"x", " X", "y", ""}]

NotesAddNote ==
    \E args \in {<<t>> \o x : t \in NoteInputs.titles, x \in NoteInputs.texts} :
        \E env \in Envs("add-note") :
            Loop("add-note", args, env, cmd_add_note(args, contacts, notes, env.now),
                 MaxNoteBookSize)

NotesAddTags ==
    \E args \in {<<t, g>> : t \in NoteInputs.titles, g \in NoteInputs.tags}
                    \cup {<<t, g, h>> : t \in NoteInputs.titles, g \in NoteInputs.tags,
                                        h \in NoteInputs.tags} :
        \E env \in Envs("add-tags") :
            Loop("add-tags", args, env, cmd_tag_add(args, contacts, notes), MaxNoteBookSize)

NotesDeleteTag ==
    \E args \in {<<t, g>> : t \in NoteInputs.titles, g \in NoteInputs.tags} :
        \E env \in Envs("delete-tag") :
            Loop("delete-tag", args, env, cmd_tag_remove(args, contacts, notes),
                 MaxNoteBookSize)

NextNotes ==
    \/ NotesAddNote
    \/ NotesAddTags
    \/ NotesDeleteTag
    \/ NextLine

SpecNotes == Init /\ [][NextNotes]_vars

(***************************************************************************)
(* Every command on a storage whose names, addresses, titles, texts and    *)
(* tags are the text of the exit signal.                                   *)
(***************************************************************************)
ExitInputs ==
    {<<>>, <<EXIT>>, <<EXIT, EXIT>>, <<EXIT, EXIT, EXIT>>, <<EXIT, "1111111111">>}

\* a line whose first token is a registered command other than exit and
\* close and whose arguments are among ExitInputs
ExitWords ==
    \E key \in Registered \ {"exit", "close"} : \E args \in ExitInputs :
        \E env \in Envs(key) :
            Loop(key, args, env,
                 CASE key = "add-contact" -> cmd_add(args, contacts, notes)
                   [] key = "change-phone" -> cmd_change(args, contacts, notes)
                   [] key = "show-phone" -> cmd_phone(args, contacts, notes)
                   [] key = "all-contacts" -> cmd_all(args, contacts, notes)
                   [] key = "add-birthday" -> cmd_add_birthday(args, contacts, notes)
                   [] key = "show-birthday" -> cmd_show_birthday(args, contacts, notes)
                   [] key = "birthdays" -> cmd_birthdays(args, contacts, notes, env.today)
                   [] key = "add-email" -> cmd_add_email(args, contacts, notes)
                   [] key = "delete-email" -> cmd_remove_email(args, contacts, notes)
                   [] key = "add-address" -> cmd_set_address(args, contacts, notes)
                   [] key = "delete-phone" -> cmd_remove_phone(args, contacts, notes)
                   [] key = "delete-address" -> cmd_remove_address(args, contacts, notes)
                   [] key = "find-contact" -> cmd_find(args, contacts, notes)
                   [] key = "delete-contact" -> cmd_delete_contact(args, contacts, notes)
                   [] key = "add-note" -> cmd_add_note(args, contacts, notes, env.now)
                   [] key = "all-notes" -> cmd_list_notes(args, contacts, notes)
                   [] key = "find-note" -> cmd_find_note(args, contacts, notes)
                   [] key = "find-tag" -> cmd_find_tag(args, contacts, notes)
                   [] key = "edit-note" -> cmd_edit_note(args, contacts, notes)
                   [] key = "add-tags" -> cmd_tag_add(args, contacts, notes)
                   [] key = "delete-tag" -> cmd_tag_remove(args, contacts, notes)
                   [] key = "delete-note" -> cmd_delete_note(args, contacts, notes)
                   [] key = "hello" -> cmd_hello(args, contacts, notes)
                   [] key = "help" -> cmd_help(args, contacts, notes)
                   [] key = "version" -> cmd_version(args, contacts, notes),
                 MaxSize)

NextExit ==
    \/ ExitWords
    \/ Exit
    \/ Close
    \/ NextLine

SpecExit == Init /\ [][NextExit]_vars

(***************************************************************************)
(* The birthday computations of Record and AddressBook on books of records *)
(* with and without a birthday, for days around the turn of February and   *)
(* of the year.  last holds the call and what it returned.                 *)
(***************************************************************************)
BirthdayInputs ==
    [names |-> {"Ann", "bob", "Cy"},
     birthdays |-> {"29.02.2000", "28.02.1999", "01.03.2001", "31.12.1990"},
     todays |-> {date(y, md[1], md[2]) :
                    y \in {2023, 2024, 2099},
                    md \in {<<1, 1>>, <<2, 28>>, <<3, 1>>, <<3, 2>>, <<12, 25>>, <<12, 31>>}}
                \cup {date(2024, 2, 29)}]

\* Record(Name(nm)), set_birthday(Birthday(b)) when b is given, add_record
PutBirthday ==
    \E nm \in BirthdayInputs.names : \E b \in BirthdayInputs.birthdays \cup {""} :
        LET rec == IF b = "" THEN Record(Name(nm))
                   ELSE set_birthday(Record(Name(nm)), BirthdayValue(b))
        IN  /\ Len(contacts) < MaxBirthdayBookSize
            /\ add_record(contacts, rec).exc = NoExc
            /\ contacts' = add_record(contacts, rec).data
            /\ last' = Idle
            /\ UNCHANGED <<notes, saved, saveFailures, running>>

\* rec.get_next_birthday(today) and rec.days_to_birthday(today), one call
\* on the book as it stands
NextBirthday ==
    \E i \in 1..Len(contacts) : \E today \in BirthdayInputs.todays :
        /\ last = Idle
        /\ last' = [kind |-> "get_next_birthday", rec |-> contacts[i].rec, today |-> today,
                    next |-> get_next_birthday(contacts[i].rec, today),
                    delta |-> days_to_birthday(contacts[i].rec, today)]
        /\ UNCHANGED <<contacts, notes, saved, saveFailures, running>>

\* contacts.upcoming_birthdays(days, today), one call on the book as it stands
UpcomingBirthdays ==
    \E days \in 0..MaxDays : \E today \in BirthdayInputs.todays :
        /\ last = Idle
        /\ last' = [kind |-> "upcoming_birthdays", days |-> days, today |-> today,
                    bucket |-> upcoming_birthdays(contacts, days, today)]
        /\ UNCHANGED <<contacts, notes, saved, saveFailures, running>>

NextBirthdays ==
    \/ PutBirthday
    \/ NextBirthday
    \/ UpcomingBirthdays

SpecBirthdays == Init /\ [][NextBirthdays]_vars

(***************************************************************************)
(* The constructor of Phone on strings of up to MaxPhoneLen characters     *)
(* between optional spaces: runs of digits, and runs of digits with one    *)
(* character replaced by a letter, a space or a dash.                      *)
(***************************************************************************)
PhoneStrings ==
    LET digits == "01234567890123456789"
        cores == {SubSeq(digits, 1, n) : n \in 0..MaxPhoneLen}
        Replaced(core) ==
            {SubSeq(core, 1, i - 1) \o c \o SubSeq(core, i + 1, Len(core)) :
                i \in 1..Len(core), c \in {"a", " ", "-"}}
    IN  {pre \o core \o post :
            pre \in {"", " "}, post \in {"", " "},
            core \in cores \cup UNION {Replaced(core) : core \in cores}}

\* Phone(new_value): the setter raises ValueError or stores the value
ConstructPhone ==
    \E new_value \in PhoneStrings :
        /\ last' = [kind |-> "Phone", new_value |-> new_value,
                    exc |-> IF PhoneValid(new_value) THEN NoExc ELSE "ValueError",
                    value |-> IF PhoneValid(new_value) THEN PhoneValue(new_value)
                              ELSE PhoneError]
        /\ UNCHANGED <<contacts, notes, saved, saveFailures, running>>

SpecPhone == Init /\ [][ConstructPhone]_vars

(***************************************************************************)
(* Properties.                                                             *)
(***************************************************************************)
Records == {contacts[i].rec : i \in 1..Len(contacts)}

\* the last pass of the loop dispatched a registered command
Dispatched == last.kind = "command"

\* C1: after any sequence of commands no contact record holds two phones
\* with the same value, including after edit_phone(old, new) with new equal
\* to another phone of the record
C1_NoDuplicatePhones ==
    \A r \in Records :
        \A i, j \in 1..Len(r.phones) : i # j => r.phones[i] # r.phones[j]

\* C3: whenever a command invokes save, the storage in memory differs from
\* its state before that command
C3_SaveOnlyAfterChange ==
    [][(running = "prompt" /\ last'.saves > 0)
          => <<contacts', notes'>> # <<contacts, notes>>]_vars

\* C10: every record in the AddressBook has a non-empty name
C10_NamesNonEmpty == \A r \in Records : r.name # ""

\* C2: a mutating command whose handler raises a validation or lookup
\* failure makes no call of save; one whose handler completes makes exactly
\* one call, done when the pass of the loop ends, before the next line is read
C2_SaveIffHandlerCompletes ==
    (Dispatched /\ last.invoked /\ Entry(last.cmd).mutating) =>
        /\ last.exc \in {"KeyError", "ValueError"} => last.saves = 0
        /\ last.exc = NoExc =>
              /\ last.saves = 1
              /\ running = "iterated"
              /\ last.saveExc = NoExc => saved = [contacts |-> contacts, notes |-> notes]

C2_Witness ==
    /\ Dispatched
    /\ last.cmd = "add-email"
    /\ last.exc = NoExc
    /\ last.saves = 1
    /\ saved.contacts = contacts
    /\ \E r \in Records : r.emails # <<>>

\* C4: dispatch with fewer arguments than the declared minimum never invokes
\* the handler, never calls save, leaves the storage unchanged and yields
\* the not-enough-arguments outcome with the usage text of the command
C4_TooFewArguments ==
    [][(/\ running = "prompt"
        /\ last'.kind = "command"
        /\ Len(last'.args) < Entry(last'.cmd).min_args)
          => /\ ~last'.invoked
             /\ last'.saves = 0
             /\ UNCHANGED <<contacts, notes, saved>>
             /\ StartsWith(Entry(last'.cmd).help, "Usage: ")
             /\ last'.out = "Not enough arguments. " \o Entry(last'.cmd).help]_vars

C4_Witness ==
    /\ Dispatched
    /\ last.cmd = "change-phone"
    /\ Len(last.args) = 2
    /\ ~last.invoked
    /\ contacts # <<>>

\* C5: when the handler of a mutating command fails with a validation or
\* lookup failure, the storage after the command equals the storage before
C5_FailedCommandChangesNothing ==
    [][(/\ running = "prompt"
        /\ last'.kind = "command"
        /\ last'.invoked
        /\ Entry(last'.cmd).mutating
        /\ last'.exc \in {"KeyError", "ValueError"})
          => UNCHANGED <<contacts, notes>>]_vars

C5_Witness ==
    /\ Dispatched
    /\ last.cmd = "add-contact"
    /\ last.exc = "ValueError"
    /\ ~has_record(contacts, last.args[1])

\* C6: edit_phone(old, new) fails and leaves the record unchanged when new
\* is not a valid phone or old is absent (NotFound); otherwise the first
\* phone equal to old is replaced in place by the normalized new and every
\* other phone keeps its value and position
C6_EditPhoneAtomic ==
    [][(/\ running = "prompt"
        /\ last'.kind = "command"
        /\ last'.cmd = "change-phone"
        /\ last'.invoked
        /\ has_record(contacts, last'.args[1]))
          => LET rec == get_record(contacts, last'.args[1])
                 old == last'.args[2]
                 new == last'.args[3]
                 after == get_record(contacts', last'.args[1])
             IN  /\ has_record(contacts', last'.args[1])
                 /\ ~PhoneValid(new) => (last'.exc # NoExc /\ after = rec)
                 /\ ~InSeq(old, rec.phones) => (last'.exc = "KeyError" /\ after = rec)
                 /\ (PhoneValid(new) /\ InSeq(old, rec.phones)) =>
                       /\ last'.exc = NoExc
                       /\ Len(after.phones) = Len(rec.phones)
                       /\ \E i \in 1..Len(rec.phones) :
                             /\ rec.phones[i] = old
                             /\ \A j \in 1..(i - 1) : rec.phones[j] # old
                             /\ after.phones[i] = PhoneValue(new)
                             /\ \A j \in 1..Len(rec.phones) :
                                   j # i => after.phones[j] = rec.phones[j]
                       /\ after = [rec EXCEPT !.phones = after.phones]]_vars

C6_Witness ==
    /\ Dispatched
    /\ last.cmd = "change-phone"
    /\ last.invoked
    /\ last.exc = NoExc
    /\ has_record(contacts, last.args[1])
    /\ LET rec == get_record(contacts, last.args[1]) IN
          /\ Len(rec.phones) = 2
          /\ rec.phones[2] = PhoneValue(last.args[3])
          /\ rec.phones[1] # rec.phones[2]

\* C7: add_record with a name whose lower-cased form is already a key fails
\* and leaves the book unchanged; the book never holds two records whose
\* names are equal ignoring case; add-contact with a name that differs from
\* an existing one only in letter case works on the existing record
C7_NamesUniqueIgnoringCase ==
    [][(/\ \A nm \in Inputs.names :
              has_record(contacts', nm) =>
                  LET r == add_record(contacts', Record(Name(nm))) IN
                  r.exc = "KeyError" /\ r.data = contacts'
        /\ \A i, j \in 1..Len(contacts') :
              i # j => Lower(contacts'[i].rec.name) # Lower(contacts'[j].rec.name)
        /\ (/\ running = "prompt"
            /\ last'.kind = "command"
            /\ last'.cmd = "add-contact"
            /\ last'.invoked
            /\ \E r \in Records : Lower(r.name) = Lower(Strip(last'.args[1])))
              => /\ Len(contacts') = Len(contacts)
                 /\ \A i \in 1..Len(contacts) :
                       /\ contacts'[i].key = contacts[i].key
                       /\ contacts'[i].rec.name = contacts[i].rec.name)]_vars

C7_Witness ==
    /\ Dispatched
    /\ last.cmd = "add-contact"
    /\ last.args = <<" ann", "1111111111">>
    /\ Len(contacts) = 1
    /\ contacts[1].rec.name = "Ann"
    /\ contacts[1].rec.phones = <<"1111111111">>

\* C8: for a registered command the arity check and the wrapped handler end
\* with a string outcome or the exit signal, never with an exception that
\* reaches the loop; the loop goes on to the next line unless the outcome is
\* the exit signal
C8_NoFailureEscapes ==
    /\ running # "crashed"
    /\ Dispatched => /\ running \in {"iterated", "done"}
                     /\ running = "done" <=> last.out = EXIT

C8_Witness ==
    /\ Dispatched
    /\ last.exc = "ValueError"
    /\ running = "iterated"
    /\ StartsWith(last.out, "Value error: ")

\* C9: when save fails in a mutating command whose handler succeeded, the
\* outcome is an error string, not the success message of the handler, and
\* the failure does not escape the dispatcher
C9_SaveFailureSurfaced ==
    (Dispatched /\ last.saveExc # NoExc) =>
        /\ last.exc = NoExc
        /\ running = "iterated"
        /\ last.printed
        /\ last.out = "Error: " \o SaveErrorText

C9_Witness ==
    /\ Dispatched
    /\ last.cmd = "add-contact"
    /\ last.saveExc = "OSError"
    /\ contacts # <<>>
    /\ saved.contacts = <<>>

\* C11: get_next_birthday(today) for a stored birthday of 29 February: with
\* today in a non-leap year it is 1 March of this year when that is on or
\* after today, otherwise 29 February of the next year when that year is
\* leap, else 1 March of the next year; with today in a leap year and on or
\* before 29 February it is 29 February of that year
C11_LeapDayBirthday ==
    (/\ last.kind = "get_next_birthday"
     /\ last.rec.birthday # <<>>
     /\ SubSeq(last.rec.birthday[1], 1, 6) = "29.02.") =>
        LET y == last.today.y IN
        /\ ~isleap(y) =>
              last.next = <<IF toordinal(date(y, 3, 1)) >= toordinal(last.today)
                            THEN date(y, 3, 1)
                            ELSE IF isleap(y + 1) THEN date(y + 1, 2, 29)
                            ELSE date(y + 1, 3, 1)>>
        /\ (isleap(y) /\ toordinal(last.today) <= toordinal(date(y, 2, 29))) =>
              last.next = <<date(y, 2, 29)>>

C11_Witness ==
    /\ last.kind = "get_next_birthday"
    /\ last.rec.birthday = <<"29.02.2000">>
    /\ last.today = date(2023, 3, 2)
    /\ last.next = <<date(2024, 2, 29)>>

\* C12: for every stored birthday and every today, get_next_birthday(today)
\* is the earliest date on or after today that is an occurrence of the
\* birthday (same month and day, 1 March standing in for 29 February in a
\* non-leap year); days_to_birthday(today) is the distance to it, is never
\* negative, never exceeds 366, and is 0 exactly when today is an occurrence
C12_NextOccurrence ==
    (last.kind = "get_next_birthday" /\ last.rec.birthday # <<>>) =>
        LET born == as_date(last.rec.birthday[1])
            Occurs(d) ==
                \/ d.m = born.m /\ d.d = born.d
                \/ born.m = 2 /\ born.d = 29 /\ ~isleap(d.y) /\ d.m = 3 /\ d.d = 1
            Later == {d \in {date(y, m, dd) : y \in {last.today.y, last.today.y + 1},
                                              m \in 1..12, dd \in 1..31} :
                         /\ d.d <= DaysInMonth(d.y, d.m)
                         /\ Occurs(d)
                         /\ toordinal(d) >= toordinal(last.today)}
        IN  /\ last.next # <<>>
            /\ last.next[1] \in Later
            /\ \A d \in Later : toordinal(last.next[1]) <= toordinal(d)
            /\ last.delta = <<toordinal(last.next[1]) - toordinal(last.today)>>
            /\ last.delta[1] >= 0
            /\ last.delta[1] <= 366
            /\ last.delta[1] = 0 <=> Occurs(last.today)

C12_Witness ==
    /\ last.kind = "get_next_birthday"
    /\ last.rec.birthday = <<"01.03.2001">>
    /\ last.today = date(2023, 3, 2)
    /\ last.next = <<date(2024, 3, 1)>>
    /\ last.delta = <<365>>

\* C13: upcoming_birthdays(window, today) holds exactly the records that
\* have a birthday and whose delta = days_to_birthday(today) is in
\* 0..window, each once and under its own delta; a record without a birthday
\* is in no group; the keys are in ascending order and the entries of each
\* group are sorted by the lower-cased name
C13_UpcomingBirthdays ==
    last.kind = "upcoming_birthdays" =>
        LET bucket == last.bucket
            Places(r) == {<<g, k>> \in (1..Len(bucket)) \X (1..MaxBirthdayBookSize + 1) :
                             /\ k <= Len(bucket[g].items)
                             /\ bucket[g].items[k][1] = r.name}
        IN  /\ \A r \in Records :
                  IF r.birthday # <<>> /\ days_to_birthday(r, last.today)[1] \in 0..last.days
                  THEN /\ Cardinality(Places(r)) = 1
                       /\ \A pl \in Places(r) :
                             /\ bucket[pl[1]].delta = days_to_birthday(r, last.today)[1]
                             /\ bucket[pl[1]].items[pl[2]][2] = r.birthday[1]
                  ELSE Places(r) = {}
            /\ \A g \in 1..Len(bucket) :
                  /\ bucket[g].items # <<>>
                  /\ \A k \in 1..Len(bucket[g].items) :
                        \E r \in Records : r.name = bucket[g].items[k][1]
                  /\ \A k, l \in 1..Len(bucket[g].items) :
                        k < l => ~StrLess(Lower(bucket[g].items[l][1]),
                                          Lower(bucket[g].items[k][1]))
            /\ \A g, h \in 1..Len(bucket) : g < h => bucket[g].delta < bucket[h].delta

C13_Witness ==
    /\ last.kind = "upcoming_birthdays"
    /\ last.days = 7
    /\ Len(contacts) = 2
    /\ contacts[1].rec.name = "Cy"
    /\ Len(last.bucket) = 1
    /\ Len(last.bucket[1].items) = 2
    /\ last.bucket[1].items[1][1] = "bob"
    /\ last.bucket[1].delta = 6

\* C14 as stated: constructing a Phone from a string of exactly 10 digits
\* succeeds and stores the string unchanged; from every other string (wrong
\* length, a character that is no digit, empty, spaces around it) it fails
C14_PhoneOnlyTenDigits ==
    last.kind = "Phone" =>
        IF Len(last.new_value) = 10 /\ AllDigits(last.new_value)
        THEN last.exc = NoExc /\ last.value = last.new_value
        ELSE last.exc = "ValueError"

\* C14 amended: constructing a Phone succeeds exactly for the strings that
\* are 10 digits once the spaces around them are taken off, and the stored
\* value is that run of 10 digits, the input unchanged when it has no spaces
\* around it; for every other string construction fails
C14_PhoneTenDigitsAfterStrip ==
    last.kind = "Phone" =>
        LET RECURSIVE Trimmed(_)
            Trimmed(s) ==
                IF s # "" /\ Char(s, 1) = " " THEN Trimmed(SubSeq(s, 2, Len(s)))
                ELSE IF s # "" /\ Char(s, Len(s)) = " "
                THEN Trimmed(SubSeq(s, 1, Len(s) - 1))
                ELSE s
        IN  IF Len(Trimmed(last.new_value)) = 10 /\ AllDigits(Trimmed(last.new_value))
            THEN /\ last.exc = NoExc
                 /\ last.value = Trimmed(last.new_value)
                 /\ Len(last.new_value) = 10 => last.value = last.new_value
            ELSE last.exc = "ValueError"

C14_Witness ==
    /\ last.kind = "Phone"
    /\ last.new_value = " 0123456789 "
    /\ last.exc = NoExc
    /\ last.value = "0123456789"

\* C15: after any sequence of commands on an initially empty storage no
\* contact record holds two emails with the same normalized value, and
\* add-email of a value the record already holds leaves its email list (and
\* the rest of the book) unchanged
C15_NoDuplicateEmails ==
    [][/\ \A i \in 1..Len(contacts') :
             \A j, k \in 1..Len(contacts'[i].rec.emails) :
                 j # k => contacts'[i].rec.emails[j] # contacts'[i].rec.emails[k]
       /\ (/\ running = "prompt"
           /\ last'.kind = "command"
           /\ last'.cmd = "add-email"
           /\ last'.invoked
           /\ has_record(contacts, last'.args[1])
           /\ InSeq(Strip(last'.args[2]), get_record(contacts, last'.args[1]).emails))
             => /\ contacts' = contacts
                /\ last'.exc = NoExc]_vars

C15_Witness ==
    /\ Dispatched
    /\ last.cmd = "add-email"
    /\ last.invoked
    /\ last.exc = NoExc
    /\ last.args = <<"Ann", " a@b.co">>
    /\ has_record(contacts, "Ann")
    /\ get_record(contacts, "Ann").emails = <<"a@b.co", "c@d.eu">>

\* C16: close and exit are both registered and each yields the exit signal
\* with any arguments; on the exit signal the loop stops without printing
\* the signal, reads no further line, makes no call of save and leaves the
\* storage unchanged
C16_ExitStopsTheLoop ==
    [][/\ {"exit", "close"} \subseteq Registered
       /\ running # "done"
       /\ (/\ running = "prompt"
           /\ last'.kind = "command"
           /\ last'.cmd \in {"exit", "close"})
             => /\ last'.invoked
                /\ last'.exc = NoExc
                /\ last'.out = EXIT
                /\ ~last'.printed
                /\ last'.saves = 0
                /\ running' = "done"
                /\ UNCHANGED <<contacts, notes, saved, saveFailures>>]_vars

C16_Witness ==
    /\ Dispatched
    /\ last.cmd = "close"
    /\ last.args = <<"extra">>
    /\ last.out = EXIT
    /\ running = "done"
    /\ contacts # <<>>
    /\ saved.contacts # contacts

C18_DuplicateAddSurfaced ==
    [][/\ (/\ running = "prompt"
           /\ last'.kind = "command"
           /\ last'.invoked
           /\ last'.saveExc = NoExc
           /\ last'.cmd = "add-contact"
           /\ Len(last'.args) = 1
           /\ has_record(contacts, last'.args[1]))
             => /\ last'.exc = NoExc
                /\ ~StartsWith(last'.out, "Not found: ")
                /\ Contains(last'.out, "already exists")
                /\ contacts' = contacts
       /\ (/\ running = "prompt"
           /\ last'.kind = "command"
           /\ last'.invoked
           /\ last'.saveExc = NoExc
           /\ last'.cmd = "add-note"
           /\ Strip(Join(" ", Tail(last'.args))) # ""
           /\ has_note(notes, last'.args[1]))
             => /\ last'.exc = NoExc
                /\ ~StartsWith(last'.out, "Not found: ")
                /\ Contains(last'.out, "already exists")
                /\ notes' = notes]_vars

\* C19: adding the same phone value to a record twice raises nothing and
\* gives what adding it once gives, with exactly one phone of that value
\* when the record did not hold it; add-contact Ann P on a book without Ann
\* reports the contact added with P as its only phone, and add-contact Ann P
\* on a record that holds P reports that P already exists for Ann and leaves
\* the book unchanged
C19_AddPhoneIdempotent ==
    [][/\ last'.kind = "add_phone" =>
             /\ last'.twice = last'.once
             /\ ~InSeq(last'.phone, last'.rec.phones) =>
                   /\ Len(last'.twice.phones) = Len(last'.rec.phones) + 1
                   /\ Cardinality({k \in 1..Len(last'.twice.phones) :
                                      last'.twice.phones[k] = last'.phone}) = 1
             /\ InSeq(last'.phone, last'.rec.phones) => last'.twice = last'.rec
       /\ (/\ running = "prompt"
           /\ last'.kind = "command"
           /\ last'.invoked
           /\ last'.cmd = "add-contact"
           /\ Len(last'.args) = 2
           /\ PhoneValid(last'.args[2])
           /\ last'.saveExc = NoExc)
             => IF ~\E i \in 1..Len(contacts) :
                       Lower(contacts[i].rec.name) = Lower(Strip(last'.args[1]))
                THEN /\ last'.out = "Added contact " \o Strip(last'.args[1]) \o " with phone "
                                        \o Strip(last'.args[2]) \o "."
                     /\ contacts' = Append(contacts,
                                           [key |-> Lower(Strip(last'.args[1])),
                                            rec |-> [Record(Strip(last'.args[1])) EXCEPT
                                                        !.phones = <<Strip(last'.args[2])>>]])
                ELSE InSeq(Strip(last'.args[2]), get_record(contacts, last'.args[1]).phones)
                        => /\ last'.out = "Phone " \o Strip(last'.args[2])
                                              \o " already exists for "
                                              \o get_record(contacts, last'.args[1]).name \o "."
                           /\ contacts' = contacts]_vars

C19_Witness ==
    /\ Dispatched
    /\ last.cmd = "add-contact"
    /\ last.args = <<"Ann", "1111111111">>
    /\ last.out = "Phone 1111111111 already exists for Ann."
    /\ Len(contacts) = 1
    /\ contacts[1].rec.phones = <<"1111111111">>

\* C20: delete-contact of a name that is not in the book completes with the
\* outcome "Contact not found." of the handler and leaves the book
\* unchanged; delete-contact of an existing name, in any letter case,
\* removes that record and no other
C20_DeleteContact ==
    [][(/\ running = "prompt"
        /\ last'.kind = "command"
        /\ last'.invoked
        /\ last'.cmd = "delete-contact")
          => LET hits == {i \in 1..Len(contacts) :
                             Lower(contacts[i].rec.name) = Lower(Strip(last'.args[1]))}
             IN  /\ last'.exc = NoExc
                 /\ Cardinality(hits) <= 1
                 /\ hits = {} => /\ contacts' = contacts
                                 /\ last'.saveExc = NoExc =>
                                       last'.out = "Contact not found."
                 /\ \A i \in hits :
                       /\ contacts' = SubSeq(contacts, 1, i - 1)
                                          \o SubSeq(contacts, i + 1, Len(contacts))
                       /\ last'.saveExc = NoExc =>
                             last'.out = "Deleted contact '" \o last'.args[1] \o "'."]_vars

C20_Witness ==
    /\ Dispatched
    /\ last.cmd = "delete-contact"
    /\ last.args = <<" ann">>
    /\ last.out = "Deleted contact ' ann'."
    /\ Len(contacts) = 1
    /\ contacts[1].rec.name = ""

\* C21: after any sequence of add-tags and delete-tag commands every tag of
\* every note is non-empty, trimmed and lower-cased; add_tags adds the
\* normalized non-blank arguments and nothing else, so that blank tags and
\* tags already present in any letter case change nothing; remove_tag(t)
\* answers true exactly when the normalized t was in the set and then takes
\* out that tag alone (the answer is read off the outcome of delete-tag in
\* the passes whose save did not fail)
C21_TagsNormalized ==
    [][/\ \A i \in 1..Len(notes') : \A t \in notes'[i].rec.tags :
              t # "" /\ StripChars(t) = t /\ LowerChars(t) = t
       /\ (/\ running = "prompt"
           /\ last'.kind = "command"
           /\ last'.invoked
           /\ last'.exc = NoExc
           /\ last'.cmd \in {"add-tags", "delete-tag"})
            => LET title == last'.args[1]
                   before == get_note(notes, title)
                   after == get_note(notes', title)
                   given == {LowerChars(StripChars(last'.args[i])) :
                                i \in 2..Len(last'.args)}
               IN  /\ has_note(notes, title) /\ has_note(notes', title)
                   /\ last'.cmd = "add-tags" =>
                         /\ after.tags = before.tags \cup (given \ {""})
                         /\ (given \subseteq before.tags \cup {""} => notes' = notes)
                   /\ last'.cmd = "delete-tag" =>
                         /\ after.tags = before.tags \ given
                         /\ ~(given \subseteq before.tags) => notes' = notes
                         /\ last'.saveExc = NoExc =>
                                last'.out = IF given \subseteq before.tags
                                            THEN "Tag removed from '" \o title \o "'."
                                            ELSE "Tag not found."]_vars

\* add-tags of " X" and "" on a note that holds x and y
C21_Witness ==
    /\ Dispatched
    /\ last.cmd = "add-tags"
    /\ last.exc = NoExc
    /\ last.args = <<"todo ", " X", "">>
    /\ has_note(notes, "Todo")
    /\ get_note(notes, "Todo").tags = {"x", "y"}

\* C22: NoteBook.add of a note whose trimmed lower-cased title is already a
\* key fails and leaves the notebook as it was; add-note of such a title
\* fails with that KeyError and leaves the existing note (title, text, tags,
\* creation time) and every other note unchanged; the notebook never holds
\* two notes whose titles are equal ignoring case and surrounding whitespace
C22_TitlesUniqueIgnoringCase ==
    [][/\ \A t \in NoteInputs.titles :
              has_note(notes', t) =>
                  LET r == NoteBook_add(notes', Note(t, "eggs", 1)) IN
                  r.exc = "KeyError" /\ r.data = notes'
       /\ \A i, j \in 1..Len(notes') :
              i # j => LowerChars(StripChars(notes'[i].rec.title))
                           # LowerChars(StripChars(notes'[j].rec.title))
       /\ (/\ running = "prompt"
           /\ last'.kind = "command"
           /\ last'.cmd = "add-note"
           /\ last'.invoked
           /\ \E i \in 1..Len(notes) :
                 LowerChars(StripChars(notes[i].rec.title))
                     = LowerChars(StripChars(last'.args[1])))
             => /\ last'.exc \in {"KeyError", "ValueError"}
                /\ last'.saves = 0
                /\ UNCHANGED <<contacts, notes>>]_vars

\* add-note "todo " eggs when Todo holds milk and a tag, next to Shop
C22_Witness ==
    /\ Dispatched
    /\ last.cmd = "add-note"
    /\ last.args = <<"todo ", "eggs">>
    /\ last.exc = "KeyError"
    /\ Len(notes) = 2
    /\ has_note(notes, "Todo")
    /\ get_note(notes, "Todo") = [title |-> "Todo", text |-> "milk", tags |-> {"x"},
                                  created |-> 0]

\* C23: no command changes the title or the creation time of a note that
\* exists before and after it; edit-note changes nothing but the text of
\* the note it names, add-tags and delete-tag nothing but its tag set, and
\* each of the three leaves every other note and the contacts as they were
C23_NoteFrame ==
    [][(/\ running = "prompt"
        /\ last'.kind = "command")
          => /\ \A i \in 1..Len(notes) : \A j \in 1..Len(notes') :
                   notes[i].key = notes'[j].key
                       => /\ notes'[j].rec.title = notes[i].rec.title
                          /\ notes'[j].rec.created = notes[i].rec.created
             /\ (last'.invoked /\ last'.cmd \in {"edit-note", "add-tags", "delete-tag"})
                   => /\ contacts' = contacts
                      /\ Len(notes') = Len(notes)
                      /\ \A i \in 1..Len(notes) :
                            /\ notes'[i].key = notes[i].key
                            /\ notes[i].key # KeyOf(last'.args[1]) => notes'[i] = notes[i]
                            /\ last'.cmd = "edit-note"
                                  => notes'[i].rec.tags = notes[i].rec.tags
                            /\ last'.cmd \in {"add-tags", "delete-tag"}
                                  => notes'[i].rec.text = notes[i].rec.text]_vars

\* edit-note "todo " eggs on the note Todo made at time 1 and tagged x
C23_Witness ==
    /\ Dispatched
    /\ last.cmd = "edit-note"
    /\ last.args = <<"todo ", "eggs">>
    /\ last.exc = NoExc
    /\ notes = <<[key |-> "todo",
                  rec |-> [title |-> "Todo", text |-> "eggs", tags |-> {"x"},
                           created |-> 1]]>>

\* C24: a step of the loop keeps the set of contact keys as it was, except
\* that delete-contact takes out the key of the name it is given and nothing
\* else, and add-contact may add one key, the key of the name it is given,
\* and takes none out
C24_NoImplicitDelete ==
    [][LET before == {contacts[i].key : i \in 1..Len(contacts)}
           after == {contacts'[i].key : i \in 1..Len(contacts')}
       IN  \/ after = before
           \/ /\ running = "prompt"
              /\ last'.kind = "command"
              /\ last'.invoked
              /\ \/ /\ last'.cmd = "delete-contact"
                    /\ after = before \ {LowerChars(StripChars(last'.args[1]))}
                 \/ /\ last'.cmd = "add-contact"
                    /\ before \subseteq after
                    /\ after \ before = {LowerChars(StripChars(last'.args[1]))}]_vars

\* delete-phone took the only phone of Ann and the record is still there
C24_Witness ==
    /\ Dispatched
    /\ last.cmd = "delete-phone"
    /\ last.args = <<" ann", "1111111111">>
    /\ last.exc = NoExc
    /\ last.saveExc = NoExc
    /\ last.out = "Phone removed for Ann."
    /\ has_record(contacts, "Ann")
    /\ get_record(contacts, "Ann").phones = <<>>

\* C25: the commands that are not decorated as mutating are show-phone,
\* all-contacts, show-birthday, birthdays, find-contact, all-notes,
\* find-note, find-tag, hello, help and version (and the two that leave the
\* loop); a pass of any of them, with any arguments and whether it ends well
\* or in an error outcome, calls save_storage not once and leaves the
\* AddressBook, the NoteBook and the file as they were
C25_ReadOnlyCommands ==
    [][/\ {k \in Registered : ~Entry(k).mutating} \ {"exit", "close"}
            = {"show-phone", "all-contacts", "show-birthday", "birthdays", "find-contact",
               "all-notes", "find-note", "find-tag", "hello", "help", "version"}
       /\ (/\ running = "prompt"
           /\ last'.kind = "command"
           /\ ~Entry(last'.cmd).mutating)
             => /\ last'.saves = 0
                /\ UNCHANGED <<contacts, notes, saved, saveFailures>>]_vars

\* show-phone of a name that is not in the book, while the book holds Ann
\* and the file does not
C25_Witness ==
    /\ Dispatched
    /\ last.cmd = "show-phone"
    /\ last.args = <<"">>
    /\ last.invoked
    /\ last.out = "Not found: ''."
    /\ has_record(contacts, "Ann")
    /\ saved.contacts = <<>>

\* C26: as long as no call of save_storage has failed, the persisted snapshot
\* equals the storage in memory whenever a pass of the loop is over; and a
\* pass that changes the AddressBook or the NoteBook calls save_storage
\* after the change, before the next line is read
C26_SavedFollowsMemory ==
    [][/\ saveFailures' = 0 => saved' = [contacts |-> contacts', notes |-> notes']
       /\ <<contacts', notes'>> # <<contacts, notes>>
             => /\ last'.kind = "command"
                /\ last'.saves = 1
                /\ last'.saveExc = NoExc
                      => saved' = [contacts |-> contacts', notes |-> notes']]_vars

\* add-tags has put the tag x on the note and the file holds it
C26_Witness ==
    /\ Dispatched
    /\ last.cmd = "add-tags"
    /\ last.saves = 1
    /\ saveFailures = 0
    /\ has_note(notes, "Todo")
    /\ get_note(notes, "Todo").tags = {"x"}
    /\ saved.notes = notes

\* C27: when the outcome of a dispatched command is an error string (not
\* enough arguments, "Not found: ...", "Value error: ..." or "Error: ..."),
\* the AddressBook and the NoteBook are as they were before the command,
\* also when the error is that of save_storage failing after the handler ran
C27_ErrorLeavesStorage ==
    [][(/\ running = "prompt"
        /\ last'.kind = "command"
        /\ \/ StartsWith(last'.out, "Not enough arguments")
           \/ StartsWith(last'.out, "Not found: ")
           \/ StartsWith(last'.out, "Value error: ")
           \/ StartsWith(last'.out, "Error: "))
          => UNCHANGED <<contacts, notes>>]_vars

\* C28: each AddressBook key is the lower-cased trimmed name of the record
\* under it and each NoteBook key the trimmed lower-cased title of its note;
\* get_record and get_note find the record or note under every letter-case
\* variant of its name or title, and go on finding it after every command
\* that is not a delete-contact or delete-note of that name or title
C28_KeysAreNormalizedNames ==
    [][LET Norm(x) == LowerChars(StripChars(x))
           names == Inputs.names \cup {"ANN", "aNN "}
           titles == Inputs.titles \cup {"TODO", " tODO"}
           deletes(cmd, x) ==
               /\ last'.kind = "command"
               /\ last'.cmd = cmd
               /\ last'.invoked
               /\ Norm(last'.args[1]) = Norm(x)
       IN  /\ \A i \in 1..Len(contacts') :
                 /\ contacts'[i].key = Norm(contacts'[i].rec.name)
                 /\ \A v \in names :
                       Norm(v) = Norm(contacts'[i].rec.name)
                           => /\ has_record(contacts', v)
                              /\ get_record(contacts', v) = contacts'[i].rec
           /\ \A i \in 1..Len(notes') :
                 /\ notes'[i].key = Norm(notes'[i].rec.title)
                 /\ \A v \in titles :
                       Norm(v) = Norm(notes'[i].rec.title)
                           => /\ has_note(notes', v)
                              /\ get_note(notes', v) = notes'[i].rec
           /\ \A v \in names :
                 has_record(contacts, v) /\ ~deletes("delete-contact", v)
                     => has_record(contacts', v)
           /\ \A v \in titles :
                 has_note(notes, v) /\ ~deletes("delete-note", v)
                     => has_note(notes', v)]_vars

\* show-phone Ann finds the contact added as " ann", next to the note added
\* as "todo "
C28_Witness ==
    /\ Dispatched
    /\ last.cmd = "show-phone"
    /\ last.args = <<"Ann">>
    /\ last.out = "No phone numbers for ann."
    /\ contacts = <<[key |-> "ann", rec |-> get_record(contacts, "Ann")]>>
    /\ Len(notes) = 1
    /\ notes[1].key = "todo"
    /\ notes[1].rec.title = "todo "

\* C29: the loop ends through an outcome only for close and exit: whatever
\* the arguments of another registered command and whatever the names,
\* phones, addresses, titles, texts and tags in the storage, the text of the
\* exit signal among them, its outcome is not the exit signal and the loop
\* goes on
C29_OnlyExitEndsTheLoop ==
    [][(/\ running = "prompt"
        /\ last'.kind = "command"
        /\ last'.cmd \notin {"exit", "close"})
          => /\ last'.out # EXIT
             /\ running' = "iterated"
             /\ last'.printed]_vars

\* find-note __EXIT__ on a note whose title and text are the exit signal
C29_Witness ==
    /\ Dispatched
    /\ last.cmd = "find-note"
    /\ last.args = <<EXIT>>
    /\ Len(notes) = 1
    /\ notes[1].rec.title = EXIT
    /\ notes[1].rec.text = EXIT
    /\ last.out # "No results."
    /\ running = "iterated"

====
